---- MODULE Spec2Model ----
(***************************************************************************)
(* Model of the AI browser agent's background service worker:              *)
(*   - the Model Gateway (aiClient: callAI, RateLimiter),                  *)
(*   - the Session Store (SessionManager, SessionWrapper),                 *)
(*   - the message handlers of the service worker (handleProcessCommand,   *)
(*     handleClarificationResponse, loadSettings),                         *)
(*   - the fast-path Pattern Matcher (checkFastPath).                      *)
(* Times are milliseconds, as returned by Date.now().                      *)
(***************************************************************************)
EXTENDS Integers, Sequences, FiniteSets, TLC

VARIABLES
    now,        \* Date.now()
    requests,   \* RateLimiter.requests: recorded timestamps, in push order
    rl,         \* history of the canProceed() calls made so far
    ai,         \* history of the callAI() calls made so far
    sessions,   \* SessionManager.sessions: the ids of the stored Session
                \* objects, in Map insertion order (keyed by their tabId)
    heap,       \* every Session object created so far, by id; an object
                \* outlives its store entry while a SessionWrapper holds it
    cleanup,    \* history: the last run of cleanupOldSessions
    settings,   \* the service worker's current settings object
    storage,    \* chrome.storage.local, as far as loadSettings reads it
    cmd,        \* the PROCESS_COMMAND messages: where each handler stands
    clar,       \* history: the last CLARIFICATION_RESPONSE handled
    gate,       \* history: the last call of a Safety Filter operation or of
                \* a model stage (analyzeIntent, generateCode), with its result
    page,       \* the page of a tab: its document, and the element map and
                \* identifiers the last parseDOMInPage left behind
    verifier    \* the tab a verification looks at, and the history of the
                \* verifyAction calls made for it

gatewayVars == <<requests, rl, ai>>
storeVars == <<sessions, heap, cleanup>>
workerVars == <<settings, storage, cmd, clar>>
toolVars == <<gate, page, verifier>>
vars == <<now, requests, rl, ai, sessions, heap, cleanup,
          settings, storage, cmd, clar, gate, page, verifier>>

(***************************************************************************)
(* Bounds of the model                                                     *)
(***************************************************************************)
TickMs == 30000         \* the clock advances in steps of this size
MaxTimeMs == 120000     \* the clock stops here
MaxCalls == 12          \* canProceed() calls made in one behaviour
NumCallers == 2         \* concurrent callers of the shared limiter

Callers == 1..NumCallers

(***************************************************************************)
(* RateLimiter (aiClient)                                                  *)
(***************************************************************************)
maxRequests == 10
windowMs == 60000

\* this.requests.filter((t) => now - t < this.windowMs)
InWindowLate(t, at) == at - t <= windowMs
InWindow(t, at) == at - t < windowMs

Evict(rs, at) == SelectSeq(rs, LAMBDA t : InWindow(t, at))

\* the capacity test of canProceed: requests.length >= maxRequests rejects
UnderCapOffByOne(rs) == Len(rs) <= maxRequests
UnderCap(rs) == Len(rs) < maxRequests

SeqMax(rs) == IF rs = <<>> THEN -1
              ELSE CHOOSE m \in {rs[i] : i \in DOMAIN rs} :
                     \A i \in DOMAIN rs : rs[i] <= m
SeqMin(rs) == IF rs = <<>> THEN -1
              ELSE CHOOSE m \in {rs[i] : i \in DOMAIN rs} :
                     \A i \in DOMAIN rs : rs[i] >= m

\* the end of canProceed: a rejected call returns before the push
RecordedAlways(kept, ok, at) == Append(kept, at)
Recorded(kept, ok, at) == IF ok THEN Append(kept, at) ELSE kept

\* canProceed(): evict, check and record in one synchronous step (the method
\* holds no await, so no other caller runs between its statements).
canProceed(c) ==
    /\ rl.calls < MaxCalls
    /\ LET kept == Evict(requests, now)
           ok == UnderCap(kept)
       IN /\ requests' = Recorded(kept, ok, now)
          /\ rl' = [calls |-> rl.calls + 1,
                    firstAt |-> IF rl.calls = 0 THEN now ELSE rl.firstAt,
                    lastAt |-> now,
                    lastRet |-> ok,
                    lastCaller |-> c,
                    prevMax |-> SeqMax(requests),
                    lastFree |-> maxRequests - Len(kept),
                    prev |-> [at |-> rl.lastAt, ret |-> rl.lastRet,
                              caller |-> rl.lastCaller, free |-> rl.lastFree],
                    admits |-> IF ok THEN rl.admits + 1 ELSE rl.admits,
                    admitted |-> IF ok THEN Append(rl.admitted, now)
                                 ELSE rl.admitted,
                    rejected |-> rl.rejected \/ ~ok,
                    wait |-> rl.wait]
    /\ UNCHANGED <<now, ai>>
    /\ UNCHANGED storeVars
    /\ UNCHANGED workerVars
    /\ UNCHANGED toolVars

\* a getWaitTime that measures from the newest recorded timestamp
getWaitTimeFromNewest(rs, at) ==
    IF Len(rs) < maxRequests THEN 0 ELSE SeqMax(rs) + windowMs - at

\* getWaitTime()
getWaitTime(rs, at) ==
    IF Len(rs) < maxRequests THEN 0 ELSE SeqMin(rs) + windowMs - at

\* history of the last getWaitTime() call: what it returned, when, and the
\* timestamps it found recorded
NoWait == [asked |-> FALSE, time |-> 0, at |-> 0, found |-> <<>>]

\* a caller asks the limiter how long to back off
GetWaitTime ==
    /\ rl' = [rl EXCEPT !.wait = [asked |-> TRUE,
                                  time |-> getWaitTime(requests, now),
                                  at |-> now, found |-> requests]]
    /\ UNCHANGED <<now, requests, ai>>
    /\ UNCHANGED storeVars
    /\ UNCHANGED workerVars
    /\ UNCHANGED toolVars

\* The limiter is at capacity at instant `at': canProceed() would reject.
AtCapacity(rs, at) == ~UnderCap(Evict(rs, at))

(***************************************************************************)
(* callAI / callClaude / callOpenAI (aiClient)                             *)
(***************************************************************************)
Providers == {"claude", "openai"}
ApiKeys == {"", "sk-key"}
\* the keys the user saves one after the other on the options page
SavedKeys == {"sk-key", "sk-other"}
\* what the remote provider answers: the HTTP status is ok or not, and the
\* JSON body carries the content field, lacks the field inside its
\* container, or lacks the container
Responses == [ok : BOOLEAN, body : {"full", "noContent", "noContainer"}]

callClaude(resp) ==
    IF ~resp.ok THEN [sent |-> TRUE, result |-> "ProviderError"]
    ELSE IF resp.body # "full" THEN [sent |-> TRUE, result |-> "ProtocolError"]
    ELSE [sent |-> TRUE, result |-> "text"]

callOpenAI(resp) ==
    IF ~resp.ok THEN [sent |-> TRUE, result |-> "ProviderError"]
    ELSE IF resp.body = "noContainer" THEN [sent |-> TRUE, result |-> "ProtocolError"]
    ELSE IF resp.body = "noContent" THEN [sent |-> TRUE, result |-> "undefined"]
    ELSE [sent |-> TRUE, result |-> "text"]

callAI(provider, apiKey, resp) ==
    IF apiKey = "" THEN [sent |-> FALSE, result |-> "ConfigurationError"]
    ELSE IF provider = "claude" THEN callClaude(resp)
    ELSE IF provider = "openai" THEN callOpenAI(resp)
    ELSE [sent |-> FALSE, result |-> "UnknownProvider"]

\* One call of the gateway from any caller.  callAI never consults
\* rateLimiter: the limiter's state is neither read nor written.
CallAI ==
    /\ \E p \in Providers \cup {"other"}, k \in ApiKeys, resp \in Responses :
         LET r == callAI(p, k, resp)
         IN ai' = [sent |-> r.sent,
                   result |-> r.result,
                   key |-> k,
                   provider |-> p,
                   response |-> resp,
                   atCapacity |-> AtCapacity(requests, now)]
    /\ UNCHANGED <<now, requests, rl>>
    /\ UNCHANGED storeVars
    /\ UNCHANGED workerVars
    /\ UNCHANGED toolVars

\* The same call in the steps its awaits cut it into.  Fetch: callAI up to
\* `await fetch(...)' of callClaude / callOpenAI; the request carries no
\* signal and no timer is started.
NoResponse == [ok |-> FALSE, body |-> "none"]
Fetch(p, k) ==
    /\ ai.result # "pending"
    /\ ai' = [sent |-> k # "" /\ p \in Providers,
              result |-> IF k = "" THEN "ConfigurationError"
                         ELSE IF p \notin Providers THEN "UnknownProvider"
                         ELSE "pending",
              key |-> k,
              provider |-> p,
              response |-> NoResponse,
              atCapacity |-> AtCapacity(requests, now)]
    /\ UNCHANGED <<now, requests, rl>>
    /\ UNCHANGED storeVars
    /\ UNCHANGED workerVars
    /\ UNCHANGED toolVars

\* the provider answers: fetch resolves and the call runs to its end
Respond(resp) ==
    /\ ai.result = "pending"
    /\ ai' = [ai EXCEPT !.result = callAI(ai.provider, ai.key, resp).result,
                        !.response = resp]
    /\ UNCHANGED <<now, requests, rl>>
    /\ UNCHANGED storeVars
    /\ UNCHANGED workerVars
    /\ UNCHANGED toolVars

\* the network fails: fetch rejects and callAI rejects with its error
FetchRejects ==
    /\ ai.result = "pending"
    /\ ai' = [ai EXCEPT !.result = "NetworkError"]
    /\ UNCHANGED <<now, requests, rl>>
    /\ UNCHANGED storeVars
    /\ UNCHANGED workerVars
    /\ UNCHANGED toolVars

\* Date.now() advances
Tick ==
    /\ now + TickMs <= MaxTimeMs
    /\ now' = now + TickMs
    /\ UNCHANGED gatewayVars
    /\ UNCHANGED toolVars
    /\ UNCHANGED storeVars
    /\ UNCHANGED workerVars

Range(f) == {f[i] : i \in DOMAIN f}
Last(sq) == sq[Len(sq)]

(***************************************************************************)
(* Pattern Matcher (fastPath): checkFastPath                               *)
(* A command is a sequence of atoms: pieces of text that follow each other *)
(* directly.  The atom "_" is a run of white space; every other atom is    *)
(* free of white space.                                                    *)
(***************************************************************************)
Quotes == {"\"", "'"}
HostAtoms == {"example.com"}
UrlAtoms == {"https://example.com"}
DigitAtoms == {"250"}

\* String.prototype.toLowerCase / the i flag, on the atoms that have capitals
Lower(a) == CASE a = "Scroll" -> "scroll"
              [] a = "DOWN" -> "down"
              [] a = "Go" -> "go"
              [] a = "Sign" -> "sign"
              [] a = "In" -> "in"
              [] a = "Up" -> "up"
              [] a = "Example" -> "example"
              [] a = "EXAMPLE" -> "example"
              [] OTHER -> a

\* String.prototype.trim
RECURSIVE TrimLeft(_)
TrimLeft(text) == IF text # <<>> /\ Head(text) = "_" THEN TrimLeft(Tail(text)) ELSE text
RECURSIVE TrimRight(_)
TrimRight(text) == IF text # <<>> /\ Last(text) = "_"
                  THEN TrimRight(SubSeq(text, 1, Len(text) - 1)) ELSE text
\* a trim that strips the white space before the text only
trimLeadingOnly(text) == TrimLeft(text)
trim(text) == TrimRight(TrimLeft(text))

LowerAll(text) == [i \in DOMAIN text |-> Lower(text[i])]

\* (?:\s+to)?(?:the\s+)?(?:website\s+)? between the verb and the host
HostMiddles ==
    {<<>>, <<"_", "to">>, <<"the", "_">>, <<"website", "_">>,
     <<"_", "to", "the", "_">>, <<"_", "to", "website", "_">>,
     <<"the", "_", "website", "_">>,
     <<"_", "to", "the", "_", "website", "_">>}
\* (?:\s+to)? between the verb and the URL
UrlMiddles == {<<>>, <<"_", "to">>}
NavVerbs == {"navigate", "go", "open"}

\* ^(?:.*?\s+)?(?:navigate|go|open) <middle> <target>$ : the last atom is
\* the target, a middle precedes it, the verb precedes the middle, and the
\* verb starts the command or follows white space
NavMatch(l, middles, targets) ==
    /\ Len(l) >= 2
    /\ Last(l) \in targets
    /\ \E m \in middles :
         LET v == Len(l) - 1 - Len(m)
         IN /\ v >= 1
            /\ l[v] \in NavVerbs
            /\ SubSeq(l, v + 1, Len(l) - 1) = m
            /\ (v = 1 \/ l[v - 1] = "_")

\* ["']([^"']+)["'] from atom `from' to the end
QuotedFrom(t, from) ==
    /\ Len(t) >= from + 2
    /\ t[from] \in Quotes
    /\ Last(t) \in Quotes
    /\ \A i \in (from + 1)..(Len(t) - 1) : t[i] \notin Quotes

\* FAST_PATH_RULES, in table order: whether rule n matches the trimmed
\* command t (l is t in lower case), and what it returns
RuleMatches(n, t, l) ==
    CASE n = 1 -> \/ /\ Len(l) = 3
                     /\ SubSeq(l, 1, 2) = <<"scroll", "_">>
                     /\ l[3] \in {"down", "up"}
                  \/ /\ Len(l) = 5
                     /\ SubSeq(l, 1, 2) = <<"scroll", "_">>
                     /\ l[3] \in {"down", "up"}
                     /\ l[4] = "_"
                     /\ l[5] \in DigitAtoms
      [] n = 2 -> /\ Len(l) = 5
                  /\ SubSeq(l, 1, 4) = <<"scroll", "_", "to", "_">>
                  /\ l[5] \in {"top", "bottom"}
      [] n = 3 -> /\ Len(l) = 3
                  /\ SubSeq(l, 1, 2) = <<"page", "_">>
                  /\ l[3] \in {"down", "up"}
      [] n = 4 -> l = <<"go", "_", "back">>
      [] n = 5 -> l = <<"go", "_", "forward">>
      [] n = 6 -> \/ l \in {<<"refresh">>, <<"reload">>}
                  \/ l \in {<<"refresh", "_", "page">>, <<"reload", "_", "page">>}
      [] n = 7 -> NavMatch(l, HostMiddles, HostAtoms)
      [] n = 8 -> NavMatch(l, UrlMiddles, UrlAtoms)
      [] n = 9 -> /\ Len(l) >= 5
                  /\ SubSeq(l, 1, 2) = <<"click", "_">>
                  /\ QuotedFrom(t, 3)
      [] n = 10 -> /\ Len(l) >= 7
                   /\ SubSeq(l, 1, 4) = <<"click", "_", "on", "_">>
                   /\ QuotedFrom(t, 5)
      [] OTHER -> FALSE

RuleResult(n, t, l) ==
    CASE n = 1 -> [matched |-> TRUE, action |-> "scroll",
                   params |-> [direction |-> l[3],
                               amount |-> IF Len(t) = 5 THEN t[5] ELSE "400"]]
      [] n = 2 -> [matched |-> TRUE, action |-> "scroll",
                   params |-> [direction |-> l[5]]]
      [] n = 3 -> [matched |-> TRUE, action |-> "scroll",
                   params |-> [direction |-> l[3], amount |-> "800"]]
      [] n = 4 -> [matched |-> TRUE, action |-> "goBack", params |-> <<>>]
      [] n = 5 -> [matched |-> TRUE, action |-> "goForward", params |-> <<>>]
      [] n = 6 -> [matched |-> TRUE, action |-> "reload", params |-> <<>>]
      [] n \in {7, 8} -> [matched |-> TRUE, action |-> "navigate",
                          params |-> [url |-> Last(t)]]
      [] n = 9 -> [matched |-> TRUE, action |-> "clickByText",
                   params |-> [text |-> SubSeq(t, 4, Len(t) - 1)]]
      [] n = 10 -> [matched |-> TRUE, action |-> "clickByText",
                    params |-> [text |-> SubSeq(t, 6, Len(t) - 1)]]

NumRules == 10

checkFastPath(command) ==
    LET trimmedCommand == trim(command)
        l == LowerAll(trimmedCommand)
        hits == {n \in 1..NumRules : RuleMatches(n, trimmedCommand, l)}
    IN IF hits = {} THEN [matched |-> FALSE]
       ELSE RuleResult(CHOOSE n \in hits : \A k \in hits : n <= k,
                       trimmedCommand, l)

\* the elements executeClickByText looks through (button, a, ...), by their
\* trimmed textContent, their aria-label and their value; <<>> is ''
ClickCandidates ==
    [text : {<<>>, <<"Sign", "_", "Up">>, <<"sign", "_", "in">>},
     ariaLabel : {<<>>, <<"Sign", "_", "In">>}, value : {<<>>}]

\* the test of the loop of executeClickByText
TextMatches(el, searchText) ==
    \/ LowerAll(el.text) = LowerAll(searchText)
    \/ LowerAll(el.ariaLabel) = LowerAll(searchText)
    \/ LowerAll(el.value) = LowerAll(searchText)

\* executeClickByText: elements is document.querySelectorAll(...) in
\* document order; injected is FALSE when executeScript returns no result
\* for the frame (results[0]?.result is undefined).  clicked is the index
\* of the element clicked, 0 for none.
executeClickByText(text, elements, injected) ==
    LET found == {n \in DOMAIN elements : TextMatches(elements[n], text)}
    IN IF injected /\ found # {}
       THEN [success |-> TRUE,
             clicked |-> CHOOSE n \in found : \A k \in found : n <= k,
             says |-> "Clicked", text |-> text]
       ELSE IF injected
       THEN [success |-> FALSE, clicked |-> 0,
             says |-> "No element found with text", text |-> text]
       ELSE [success |-> FALSE, clicked |-> 0,
             says |-> "Could not find element with text", text |-> text]

(***************************************************************************)
(* SessionManager / SessionWrapper (sessionManager)                        *)
(***************************************************************************)
maxSessions == 50
sessionTimeout == 30 * 60 * 1000
maxMessages == 100
keptMessages == 50
maxActions == 50
keptActions == 30

\* Array.prototype.slice(-n), n > 0
SliceLast(sq, n) == IF Len(sq) <= n THEN sq
                    ELSE SubSeq(sq, Len(sq) - n + 1, Len(sq))

\* the Session literal of getOrCreateSession
NewSession(id, tabId, at) ==
    [id |-> id, tabId |-> tabId, messages |-> <<>>, actionHistory |-> <<>>,
     pendingClarification |-> "null", createdAt |-> at, lastActivityAt |-> at]

\* a lookup that does not look at the key: the first stored session
LookupAnyTab(ss, hp, tabId) == IF ss = <<>> THEN 0 ELSE ss[1]

\* this.sessions.get(tabId): the id of the stored session, 0 for undefined
Lookup(ss, hp, tabId) ==
    IF \E i \in DOMAIN ss : hp[ss[i]].tabId = tabId
    THEN CHOOSE id \in Range(ss) : hp[id].tabId = tabId
    ELSE 0

\* now - session.lastActivityAt > this.sessionTimeout
Expired(sess, at) == at - sess.lastActivityAt > sessionTimeout

\* the comparator of the sort: (a, b) => a[1].lastActivityAt - b[1].lastActivityAt
compareActivityDescending(a, b, hp) == hp[b].lastActivityAt - hp[a].lastActivityAt
compareActivity(a, b, hp) == hp[a].lastActivityAt - hp[b].lastActivityAt

\* a sort that puts the later of two entries that compare equal first
SortRankLaterTiesFirst(ss, hp) ==
    [i \in DOMAIN ss |->
        1 + Cardinality({j \in DOMAIN ss :
                \/ compareActivity(ss[j], ss[i], hp) < 0
                \/ compareActivity(ss[j], ss[i], hp) = 0 /\ j > i})]

\* Array.prototype.sort is stable: an entry stands behind every entry that
\* compares smaller and behind every earlier entry that compares equal
SortRank(ss, hp) ==
    [i \in DOMAIN ss |->
        1 + Cardinality({j \in DOMAIN ss :
                \/ compareActivity(ss[j], ss[i], hp) < 0
                \/ compareActivity(ss[j], ss[i], hp) = 0 /\ j < i})]

SortSessions(ss, hp) ==
    LET rank == <<>> \o SortRank(ss, hp)    \* the ranks, as a sequence
    IN [k \in 1..Len(ss) |-> ss[CHOOSE i \in DOMAIN ss : rank[i] = k]]

\* cleanupOldSessions(): the store after the expiry pass, and after the
\* size-cap pass
AfterExpiry(ss, hp, at) == SelectSeq(ss, LAMBDA id : ~Expired(hp[id], at))

AfterCap(ss, hp) ==
    IF Len(ss) > maxSessions
    THEN LET sortedSessions == SortSessions(ss, hp)
             toRemove == Range(SubSeq(sortedSessions, 1, Len(ss) - maxSessions))
         IN SelectSeq(ss, LAMBDA id : id \notin toRemove)
    ELSE ss

cleanupOldSessions(ss, hp, at) == AfterCap(AfterExpiry(ss, hp, at), hp)

CleanupRecord(ss, hp, at) ==
    [ran |-> TRUE, at |-> at, entry |-> ss,
     expired |-> Range(ss) \ Range(AfterExpiry(ss, hp, at)),
     evicted |-> Range(AfterExpiry(ss, hp, at))
                   \ Range(cleanupOldSessions(ss, hp, at))]

NoCleanup == [ran |-> FALSE, at |-> 0, entry |-> <<>>, expired |-> {},
              evicted |-> {}]

\* a getOrCreateSession that runs the cleanup on every call
getOrCreateSessionAlwaysCleans(ss, hp, cl, tabId, at) ==
    LET found == Lookup(ss, hp, tabId)
        id == IF found = 0 THEN Len(hp) + 1 ELSE found
        hp2 == IF found = 0 THEN Append(hp, NewSession(id, tabId, at))
               ELSE [hp EXCEPT ![found].lastActivityAt = at]
        ss2 == IF found = 0 THEN Append(ss, id) ELSE ss
    IN [sessions |-> cleanupOldSessions(ss2, hp2, at), heap |-> hp2,
        session |-> id, cleanup |-> CleanupRecord(ss2, hp2, at)]

\* getOrCreateSession(tabId): the new store, the new heap, the id of the
\* session the returned wrapper holds, and the cleanup that ran (if any)
getOrCreateSession(ss, hp, cl, tabId, at) ==
    LET found == Lookup(ss, hp, tabId)
    IN IF found = 0
       THEN LET id == Len(hp) + 1
                hp2 == Append(hp, NewSession(id, tabId, at))
                ss2 == Append(ss, id)
            IN [sessions |-> cleanupOldSessions(ss2, hp2, at), heap |-> hp2,
                session |-> id, cleanup |-> CleanupRecord(ss2, hp2, at)]
       ELSE [sessions |-> ss,
             heap |-> [hp EXCEPT ![found].lastActivityAt = at],
             session |-> found, cleanup |-> cl]

\* getSession(tabId): session 0 stands for null
getSession(ss, hp, tabId, at) ==
    LET found == Lookup(ss, hp, tabId)
    IN IF found = 0 THEN [heap |-> hp, session |-> 0]
       ELSE [heap |-> [hp EXCEPT ![found].lastActivityAt = at],
             session |-> found]

\* removeSession(tabId)
removeSession(ss, hp, tabId) == SelectSeq(ss, LAMBDA id : hp[id].tabId # tabId)

\* SessionWrapper.addMessage(message) on the wrapped Session object
addMessageKeepsAll(sess, message) ==
    [sess EXCEPT !.messages = Append(sess.messages, message)]
addMessage(sess, message) ==
    LET pushed == Append(sess.messages, message)
    IN [sess EXCEPT !.messages = IF Len(pushed) > maxMessages
                                 THEN SliceLast(pushed, keptMessages)
                                 ELSE pushed]

\* SessionWrapper.recordAction(action, success)
recordAction(sess, entry) ==
    LET pushed == Append(sess.actionHistory, entry)
    IN [sess EXCEPT !.actionHistory = IF Len(pushed) > maxActions
                                      THEN SliceLast(pushed, keptActions)
                                      ELSE pushed]

\* Array.prototype.slice(start): a negative start counts from the end, and
\* -0 is 0
Slice(sq, start) ==
    LET from == IF start < 0
                THEN (IF Len(sq) + start < 0 THEN 0 ELSE Len(sq) + start)
                ELSE (IF start > Len(sq) THEN Len(sq) ELSE start)
    IN SubSeq(sq, from + 1, Len(sq))

\* SessionWrapper.getConversationContext(maxMessages), maxMessages as wanted
getConversationContext(sess, wanted) == Slice(sess.messages, -wanted)

\* SessionWrapper.setClarification(answer) / clearClarification()
setClarification(sess, answer) == [sess EXCEPT !.pendingClarification = answer]
clearClarification(sess) == [sess EXCEPT !.pendingClarification = "null"]

(***************************************************************************)
(* The histories of one session: a wrapper of the session of tab 1 is      *)
(* handed messages and action records, numbered in the order they arrive.  *)
(***************************************************************************)
MaxMessagesAdded == 102     \* addMessage calls made in one behaviour
MaxActionsRecorded == 52    \* recordAction calls made in one behaviour

\* the number of the next entry of a history
NextEntry(history) == IF history = <<>> THEN 1 ELSE Last(history).cmd + 1

AddMessage ==
    /\ NextEntry(heap[1].messages) <= MaxMessagesAdded
    /\ LET n == NextEntry(heap[1].messages)
       IN heap' = [heap EXCEPT ![1] =
                     addMessage(@, [role |-> IF n % 2 = 1 THEN "user"
                                              ELSE "assistant",
                                    cmd |-> n])]
    /\ UNCHANGED <<now, sessions, cleanup>>
    /\ UNCHANGED gatewayVars
    /\ UNCHANGED workerVars
    /\ UNCHANGED toolVars

RecordAction ==
    /\ NextEntry(heap[1].actionHistory) <= MaxActionsRecorded
    /\ LET n == NextEntry(heap[1].actionHistory)
       IN heap' = [heap EXCEPT ![1] =
                     recordAction(@, [success |-> n % 3 # 0, cmd |-> n])]
    /\ UNCHANGED <<now, sessions, cleanup>>
    /\ UNCHANGED gatewayVars
    /\ UNCHANGED workerVars
    /\ UNCHANGED toolVars

(***************************************************************************)
(* The session store on its own: a manager that already holds PreFilled    *)
(* sessions (tabs 1..PreFilled, created in that order and since touched at *)
(* different times) serves a few more tabs.                                *)
(***************************************************************************)
PreFilled == 49         \* sessions in the store at the start
NumStoreTabs == 2       \* further tabs that are served
MaxCreates == 3         \* Session objects created in one behaviour
SessionTickMs == 900000 \* clock step of the session store (15 minutes)
MaxSessionTimeMs == 2700000

StoreTabs == (PreFilled + 1)..(PreFilled + NumStoreTabs)

\* lastActivityAt of the sessions at the start: not in insertion order
StartActivity(i) == IF i % 3 = 1 THEN SessionTickMs ELSE 0

GetOrCreateSession(t) ==
    /\ Lookup(sessions, heap, t) = 0 => Len(heap) < PreFilled + MaxCreates
    /\ LET r == getOrCreateSession(sessions, heap, cleanup, t, now)
       IN /\ sessions' = r.sessions
          /\ heap' = r.heap
          /\ cleanup' = r.cleanup
    /\ UNCHANGED now
    /\ UNCHANGED gatewayVars
    /\ UNCHANGED toolVars
    /\ UNCHANGED workerVars

GetSession(t) ==
    /\ heap' = getSession(sessions, heap, t, now).heap
    /\ UNCHANGED <<now, sessions, cleanup>>
    /\ UNCHANGED gatewayVars
    /\ UNCHANGED toolVars
    /\ UNCHANGED workerVars

RemoveSession(t) ==
    /\ sessions' = removeSession(sessions, heap, t)
    /\ UNCHANGED <<now, heap, cleanup>>
    /\ UNCHANGED gatewayVars
    /\ UNCHANGED toolVars
    /\ UNCHANGED workerVars

SessionTick ==
    /\ now + SessionTickMs <= MaxSessionTimeMs
    /\ now' = now + SessionTickMs
    /\ UNCHANGED gatewayVars
    /\ UNCHANGED toolVars
    /\ UNCHANGED storeVars
    /\ UNCHANGED workerVars

(***************************************************************************)
(* Safety Filter (safetyFilter): checkSafety, validateSelectors            *)
(* A payload is a sequence of atoms, like a command.  A word atom holds    *)
(* word characters (\w) only, an identifier atom is el-N, every other atom *)
(* is one punctuation mark or the white-space run "_".                     *)
(***************************************************************************)
\* the atom "backquote" is the character U+0060
CodeQuotes == {"\"", "'", "backquote"}
Marks == {"(", ")", ".", ":", "/", "<"} \cup CodeQuotes
IsWord(a) == a \notin Marks \cup {"_"}

\* the words of the payloads that hold a keyword of the tables inside a
\* longer word: the part a keyword matches, and whether the word goes on
\* before it and after it
Piece(a) == CASE a = "Prefetch" -> "fetch"
              [] a = "payment" -> "pay"
              [] OTHER -> a
Pre(a) == a \in {"Prefetch"}
Post(a) == a \in {"payment"}

\* the i flag of the patterns, on the words that have capitals
Fold(w) == CASE w = "localStorage" -> "localstorage"
             [] w = "Eval" -> "eval"
             [] OTHER -> w

\* the pieces of a pattern that are not literal text
OptSpace == "\\s*"
WordRun == "\\w+"
QuoteClass == "[quote]"

\* the end of the run of word atoms that starts at atom i
RECURSIVE RunEnd(_, _)
RunEnd(code, i) ==
    IF i < Len(code) /\ IsWord(code[i + 1]) THEN RunEnd(code, i + 1) ELSE i

\* a literal item of a pattern against one atom: the word may go on before
\* the first item and after the last one (the patterns are not anchored)
ItemFits(items, k, a) ==
    /\ Fold(Piece(a)) = Fold(items[k])
    /\ Pre(a) => k = 1
    /\ Post(a) => k = Len(items)

\* RegExp matching from atom i on, items k.. of the pattern: the last atom
\* matched (i - 1 for an empty match), or -1 for no match
RECURSIVE MatchEnd(_, _, _, _)
MatchEnd(items, k, code, i) ==
    IF k > Len(items) THEN i - 1
    ELSE IF items[k] = OptSpace
    THEN IF i <= Len(code) /\ code[i] = "_"
         THEN MatchEnd(items, k + 1, code, i + 1)
         ELSE MatchEnd(items, k + 1, code, i)
    ELSE IF i > Len(code) THEN -1
    ELSE IF items[k] = QuoteClass
    THEN IF code[i] \in CodeQuotes THEN MatchEnd(items, k + 1, code, i + 1)
         ELSE -1
    ELSE IF items[k] = WordRun
    THEN IF IsWord(code[i])
         THEN MatchEnd(items, k + 1, code, RunEnd(code, i) + 1)
         ELSE -1
    ELSE IF ItemFits(items, k, code[i])
    THEN MatchEnd(items, k + 1, code, i + 1)
    ELSE -1

\* \b before the match and after it: no word character on either side
Bounded(code, i, j) ==
    /\ ~Pre(code[i]) /\ ~Post(code[j])
    /\ i = 1 \/ ~IsWord(code[i - 1])
    /\ j = Len(code) \/ ~IsWord(code[j + 1])

\* a rule's pattern is a set of alternatives, (a|b|c), with \b around them
\* or not; MatchAt: it matches the payload from atom i on
MatchAt(rule, code, i) ==
    \E items \in rule.alts :
        LET j == MatchEnd(items, 1, code, i)
        IN /\ j >= i
           /\ rule.bounded => Bounded(code, i, j)

\* pattern.test(code), with lastIndex reset to 0
Test(rule, code) == \E i \in DOMAIN code : MatchAt(rule, code, i)

\* code.match(pattern)[0]: the text of the leftmost match (the blocking
\* patterns hold no alternatives)
FirstMatch(rule, code) ==
    LET i == CHOOSE n \in DOMAIN code :
                 /\ MatchAt(rule, code, n)
                 /\ \A m \in DOMAIN code : MatchAt(rule, code, m) => n <= m
        items == CHOOSE alt \in rule.alts : TRUE
        j == MatchEnd(items, 1, code, i)
    IN [n \in 1..(j - i + 1) |->
          IF n = 1 \/ (n = j - i + 1 /\ Last(items) # WordRun)
          THEN Piece(code[i + n - 1]) ELSE code[i + n - 1]]

Block(items, reason) == [alts |-> {items}, bounded |-> FALSE, reason |-> reason]

BLOCKED_PATTERNS ==
    << Block(<<"fetch", OptSpace, "(">>, "Network requests are not allowed"),
       Block(<<"XMLHttpRequest">>, "Network requests are not allowed"),
       Block(<<".", "ajax", OptSpace, "(">>, "Network requests are not allowed"),
       Block(<<"axios", ".">>, "Network requests are not allowed"),
       Block(<<"navigator", ".", "sendBeacon">>,
             "Network requests are not allowed"),
       Block(<<"WebSocket">>, "WebSocket connections are not allowed"),
       Block(<<"document", ".", "cookie">>, "Cookie access is not allowed"),
       Block(<<"localStorage">>, "localStorage access is not allowed"),
       Block(<<"sessionStorage">>, "sessionStorage access is not allowed"),
       Block(<<"indexedDB">>, "IndexedDB access is not allowed"),
       Block(<<"caches", ".">>, "Cache API access is not allowed"),
       Block(<<"eval", OptSpace, "(">>, "eval() is not allowed"),
       Block(<<"Function", OptSpace, "(">>,
             "Function constructor is not allowed"),
       Block(<<"setTimeout", OptSpace, "(", OptSpace, QuoteClass>>,
             "setTimeout with string argument is not allowed"),
       Block(<<"setInterval", OptSpace, "(", OptSpace, QuoteClass>>,
             "setInterval with string argument is not allowed"),
       Block(<<"<", "script">>, "Script injection is not allowed"),
       Block(<<"javascript", ":">>, "javascript: URLs are not allowed"),
       Block(<<"data", ":", "text", "/", "html">>,
             "data: HTML URLs are not allowed"),
       Block(<<"chrome", ".", WordRun>>,
             "Chrome extension APIs are not allowed in injected code"),
       Block(<<"browser", ".", WordRun>>,
             "Browser APIs are not allowed in injected code") >>

Flag(alts, bounded, message) ==
    [alts |-> alts, bounded |-> bounded, message |-> message]

FLAGGED_PATTERNS ==
    << Flag({<<"pay">>, <<"purchase">>, <<"buy">>, <<"checkout">>, <<"order">>,
             <<"subscribe">>, <<"billing">>}, TRUE,
            "This action involves a payment or purchase"),
       Flag({<<"delete">>, <<"remove">>, <<"cancel">>, <<"unsubscribe">>,
             <<"close", OptSpace, "account">>, <<"deactivate">>}, TRUE,
            "This action may delete or remove data"),
       Flag({<<"password">>, <<"credit", OptSpace, "card">>, <<"ssn">>,
             <<"social", OptSpace, "security">>}, TRUE,
            "This action involves sensitive data"),
       Flag({<<".", "submit", OptSpace, "(", OptSpace, ")">>}, FALSE,
            "This action will submit a form") >>

\* the blocking rule whose verdict is returned: the loop returns at the
\* first rule that matches
LastHit(hits) == CHOOSE n \in hits : \A k \in hits : k <= n
FirstHit(hits) == CHOOSE n \in hits : \A k \in hits : n <= k

\* the messages the second loop pushes
FlaggedFirstOnly(code) ==
    LET all == SelectSeq(FLAGGED_PATTERNS, LAMBDA rule : Test(rule, code))
    IN IF all = <<>> THEN <<>> ELSE <<all[1].message>>
Flagged(code) ==
    LET all == SelectSeq(FLAGGED_PATTERNS, LAMBDA rule : Test(rule, code))
    IN [n \in DOMAIN all |-> all[n].message]

\* checkSafety(code, actionType); a verdict has the fields the returned
\* object literal has, and no others
checkSafety(code, actionType) ==
    LET hits == {n \in DOMAIN BLOCKED_PATTERNS : Test(BLOCKED_PATTERNS[n], code)}
        flagged == Flagged(code)
    IN IF hits # {}
       THEN [safe |-> FALSE,
             blocked |-> FirstMatch(BLOCKED_PATTERNS[FirstHit(hits)], code),
             blockedReason |-> BLOCKED_PATTERNS[FirstHit(hits)].reason]
       ELSE IF Len(flagged) > 0
       THEN [safe |-> TRUE,
             requiresConfirmation |-> TRUE,
             confirmationMessage |->
                 <<"This action has been flagged for review:">> \o flagged
                     \o <<"Do you want to proceed?">>,
             flaggedPatterns |-> flagged]
       ELSE [safe |-> TRUE]

\* The patterns carry the g flag, so each RegExp object holds a lastIndex
\* that test() reads and writes.  lastIndex counts atoms; a literal starts
\* with lastIndex 0.
FreshPatterns ==
    [blocked |-> [n \in DOMAIN BLOCKED_PATTERNS |-> 0],
     flagged |-> [n \in DOMAIN FLAGGED_PATTERNS |-> 0]]

\* pattern.lastIndex = 0
ResetSkipped(lastIndex) == lastIndex
Reset(lastIndex) == 0

\* pattern.test(code) of a global pattern: the search starts at lastIndex;
\* a match leaves lastIndex at its end, a failure leaves it at 0
TestFrom(rule, code, lastIndex) ==
    LET starts == {i \in DOMAIN code : i > lastIndex /\ MatchAt(rule, code, i)}
        i == CHOOSE n \in starts : \A m \in starts : n <= m
        ends == {MatchEnd(items, 1, code, i) : items \in rule.alts}
        j == CHOOSE e \in ends :
                /\ e >= i
                /\ rule.bounded => Bounded(code, i, e)
    IN IF starts = {} THEN [found |-> FALSE, lastIndex |-> 0]
       ELSE [found |-> TRUE, lastIndex |-> j]

\* checkSafety(code, actionType) on patterns in the state lastIndexes: the
\* verdict, and the state it leaves the patterns in.  code.match(pattern)
\* of a global pattern finds the matches from the start and leaves
\* lastIndex at 0.
checkSafetyOn(code, lastIndexes) ==
    LET blockedTests ==
            [n \in DOMAIN BLOCKED_PATTERNS |->
                TestFrom(BLOCKED_PATTERNS[n], code,
                         Reset(lastIndexes.blocked[n]))]
        hits == {n \in DOMAIN BLOCKED_PATTERNS : blockedTests[n].found}
        flaggedTests ==
            [n \in DOMAIN FLAGGED_PATTERNS |->
                TestFrom(FLAGGED_PATTERNS[n], code,
                         Reset(lastIndexes.flagged[n]))]
        pushed == SelectSeq([n \in DOMAIN FLAGGED_PATTERNS |-> n],
                            LAMBDA n : flaggedTests[n].found)
        flagged == [k \in DOMAIN pushed |-> FLAGGED_PATTERNS[pushed[k]].message]
    IN IF hits # {}
       THEN [verdict |->
               [safe |-> FALSE,
                blocked |-> FirstMatch(BLOCKED_PATTERNS[FirstHit(hits)], code),
                blockedReason |-> BLOCKED_PATTERNS[FirstHit(hits)].reason],
             lastIndexes |->
               [lastIndexes EXCEPT !.blocked =
                  [n \in DOMAIN BLOCKED_PATTERNS |->
                      IF n <= FirstHit(hits) THEN 0
                      ELSE lastIndexes.blocked[n]]]]
       ELSE [verdict |->
               IF Len(flagged) > 0
               THEN [safe |-> TRUE,
                     requiresConfirmation |-> TRUE,
                     confirmationMessage |->
                         <<"This action has been flagged for review:">>
                             \o flagged \o <<"Do you want to proceed?">>,
                     flaggedPatterns |-> flagged]
               ELSE [safe |-> TRUE],
             lastIndexes |->
               [blocked |-> [n \in DOMAIN BLOCKED_PATTERNS |-> 0],
                flagged |-> [n \in DOMAIN FLAGGED_PATTERNS |->
                                flaggedTests[n].lastIndex]]]

\* validateSelectors(code, availableElementIds)
ElementIds == {"el-0", "el-1", "el-2"}
\* /['"]el-(\d+)['"]/g from atom i on: exec() finds the leftmost match and
\* goes on behind it
RECURSIVE ScanSelectors(_, _, _)
ScanSelectors(code, i, availableElementIds) ==
    IF i + 2 > Len(code) THEN <<>>
    ELSE IF /\ code[i] \in {"\"", "'"}
            /\ code[i + 1] \in ElementIds
            /\ code[i + 2] \in {"\"", "'"}
    THEN (IF code[i + 1] \notin availableElementIds
          THEN <<code[i + 1]>> ELSE <<>>)
         \o ScanSelectors(code, i + 3, availableElementIds)
    ELSE ScanSelectors(code, i + 1, availableElementIds)

validateSelectors(code, availableElementIds) ==
    LET invalidSelectors == ScanSelectors(code, 1, availableElementIds)
    IN [valid |-> Len(invalidSelectors) = 0,
        invalidSelectors |-> invalidSelectors]

(***************************************************************************)
(* The model stages: analyzeIntent (intentLLM), generateCode (codeGenLLM)  *)
(***************************************************************************)
\* what `await callAI(...)' gives a stage: it throws, or it returns a text
\* that holds no {...} block, a block that is not JSON, or a JSON object
ReplyKinds == {"throws", "noBlock", "badJson", "json"}
Malformed(reply) == reply \in {"noBlock", "badJson"}

\* the JSON objects a model can answer analyzeIntent with.  "null" stands
\* for a field that is null or absent, -1 for an options list that is null
\* or absent, NoIntent for a parsedIntent that is null or absent.
NoIntent == [action |-> "null", target |-> <<>>]
FillIntent == [action |-> "fill", target |-> <<"el-0">>]
IntentObjects ==
    [clear : BOOLEAN, clarificationQuestion : {"null", "text"},
     clarificationOptions : {-1, 0, 2}, parsedIntent : {NoIntent, FillIntent}]

\* the fallback of analyzeIntent
ClickCommandAsks(command) ==
    [clear |-> FALSE, clarificationQuestion |-> "null",
     clarificationOptions |-> -1,
     parsedIntent |-> [action |-> "click", target |-> command], calls |-> 1]
ClickCommand(command) ==
    [clear |-> TRUE, clarificationQuestion |-> "null",
     clarificationOptions |-> -1,
     parsedIntent |-> [action |-> "click", target |-> command], calls |-> 1]

\* analyzeIntent: the decision it returns (clarificationOptions: how many
\* options it carries) and the number of callAI calls it made
analyzeIntent(command, reply, parsed) ==
    IF reply = "json"
    THEN [clear |-> parsed.clear,
          clarificationQuestion |-> parsed.clarificationQuestion,
          clarificationOptions |-> parsed.clarificationOptions,
          parsedIntent |-> parsed.parsedIntent, calls |-> 1]
    ELSE ClickCommand(command)

\* the JSON objects a model can answer generateCode with: an action has its
\* payload and its actionType ("" stands for a missing or empty one)
MaxActions == 2
ActionPayloads == {<<"scroll">>, <<"delete">>}
ActionObjects == [actionType : {"", "click"}, code : ActionPayloads]
RECURSIVE ActionLists(_)
ActionLists(n) ==
    IF n = 0 THEN {<<>>}
    ELSE LET shorter == ActionLists(n - 1)
         IN shorter \cup {Append(list, a) : list \in shorter, a \in ActionObjects}
CodegenObjects == [success : BOOLEAN, actions : ActionLists(MaxActions)]

\* the loop of generateCode over parsed.actions
ValidActionsKeepAll(actions) == actions
ValidActions(actions) ==
    SelectSeq(actions, LAMBDA action : action.actionType # "")

\* generateCode: success, the valid actions, the error, and the number of
\* callAI calls it made
generateCode(reply, parsed) ==
    CASE reply = "throws" ->
           [success |-> FALSE, actions |-> <<>>, error |-> "thrown", calls |-> 1]
      [] reply = "noBlock" ->
           [success |-> FALSE, actions |-> <<>>,
            error |-> "Invalid response format", calls |-> 1]
      [] reply = "badJson" ->
           [success |-> FALSE, actions |-> <<>>, error |-> "thrown", calls |-> 1]
      [] reply = "json" ->
           IF ~parsed.success
           THEN [success |-> FALSE, actions |-> <<>>, error |-> "Unknown error",
                 calls |-> 1]
           ELSE LET validActions == ValidActions(parsed.actions)
                IN [success |-> Len(validActions) > 0, actions |-> validActions,
                    error |-> "none", calls |-> 1]

(***************************************************************************)
(* The Safety Filter and the model stages, called on their own             *)
(***************************************************************************)
MaxCodeLen == 4     \* atoms in a payload
SafetyAtoms == {"Prefetch", "(", "_", "localStorage", "Eval",
                "pay", "payment", "delete"}
SelectorAtoms == {"'", "backquote", "el-0", "el-1"}

RECURSIVE Codes(_, _)
Codes(atoms, n) ==
    IF n = 0 THEN {<<>>}
    ELSE LET shorter == Codes(atoms, n - 1)
         IN shorter \cup {Append(code, a) : code \in shorter, a \in atoms}

\* the arguments of one call, before the call is made
\* input: what the arguments are for (a payload for the Safety Filter, a
\* model reply for analyzeIntent or for generateCode)
NoGate == [op |-> "none", input |-> "payload", code |-> <<>>, ids |-> {},
           command |-> <<>>, elements |-> <<>>, injected |-> TRUE,
           calls |-> 0, prev |-> [safe |-> TRUE], reply |-> "none",
           intent |-> [clear |-> TRUE, clarificationQuestion |-> "null",
                       clarificationOptions |-> -1, parsedIntent |-> NoIntent],
           generated |-> [success |-> FALSE, actions |-> <<>>],
           out |-> [safe |-> TRUE]]
StageCommands == {<<"click", "_", "submit">>, <<"fill", "_", "it">>}

\* commands for the Pattern Matcher, each also with white space before it,
\* after it, and on both sides
MaxFastPathCalls == 2   \* checkFastPath calls made on one command
MaxCandidates == 2      \* elements executeClickByText looks through
SignIn == <<"click", "_", "\"", "Sign", "_", "In", "\"">>
BareCommands ==
    {<<>>,
     <<"scroll", "_", "down">>, <<"Scroll", "_", "DOWN">>, <<"scroll", "_", "up">>,
     <<"scroll", "_", "down", "_", "250">>, <<"scroll", "_", "to", "_", "top">>,
     <<"scroll", "_", "sideways">>, <<"page", "_", "up">>,
     <<"go", "_", "back">>, <<"go", "_", "forward">>, <<"reload", "_", "page">>,
     <<"go", "_", "to", "example.com">>, <<"go", "_", "to", "_", "example.com">>,
     <<"open", "_", "to", "https://example.com">>,
     SignIn, <<"click", "_", "on", "_", "'", "Sign", "_", "Up", "'">>,
     <<"click", "_", "submit">>}
FastPathCommands ==
    {before \o command \o after :
        before \in {<<>>, <<"_">>}, command \in BareCommands,
        after \in {<<>>, <<"_">>}}
RECURSIVE CandidateLists(_)
CandidateLists(n) ==
    IF n = 0 THEN {<<>>}
    ELSE LET shorter == CandidateLists(n - 1)
         IN shorter \cup {Append(list, el) : list \in shorter,
                                              el \in ClickCandidates}
\* the payloads handed to checkSafety and validateSelectors
PayloadInput(g) ==
    \/ \E code \in Codes(SafetyAtoms, MaxCodeLen) :
            g = [NoGate EXCEPT !.code = code]
    \/ \E code \in Codes(SelectorAtoms, MaxCodeLen),
          ids \in SUBSET (ElementIds \ {"el-2"}) :
            g = [NoGate EXCEPT !.code = code, !.ids = ids]
\* the replies, commands and candidate elements handed to the stages
GateInputs ==
    {[NoGate EXCEPT !.input = "intentReply", !.command = command,
                         !.reply = reply] :
            command \in StageCommands, reply \in ReplyKinds \ {"json"}}
    \cup {[NoGate EXCEPT !.input = "intentReply", !.command = command,
                         !.reply = "json", !.intent = parsed] :
            command \in StageCommands, parsed \in IntentObjects}
    \cup {[NoGate EXCEPT !.input = "codegenReply", !.reply = reply] :
            reply \in ReplyKinds \ {"json"}}
    \cup {[NoGate EXCEPT !.input = "codegenReply", !.reply = "json",
                         !.generated = parsed] :
            parsed \in CodegenObjects}
    \cup {[NoGate EXCEPT !.input = "command", !.command = command] :
            command \in FastPathCommands}
    \cup {[NoGate EXCEPT !.input = "click", !.command = command,
                         !.elements = elements, !.injected = injected] :
            command \in {SignIn, SignIn \o <<"_">>},
            elements \in CandidateLists(MaxCandidates),
            injected \in BOOLEAN}

\* checkFastPath(command), called again and again on the same command
CheckFastPath ==
    /\ gate.input = "command"
    /\ gate.calls < MaxFastPathCalls
    /\ gate' = [gate EXCEPT !.op = "checkFastPath", !.calls = @ + 1,
                            !.prev = gate.out,
                            !.out = checkFastPath(gate.command)]
    /\ UNCHANGED <<now, page, verifier>>
    /\ UNCHANGED gatewayVars
    /\ UNCHANGED storeVars
    /\ UNCHANGED workerVars

\* the fast path of a click command: checkFastPath, then
\* executeFastPathAction -> executeClickByText
ExecuteClickByText ==
    /\ gate.op = "none"
    /\ gate.input = "click"
    /\ LET match == checkFastPath(gate.command)
       IN /\ match.matched
          /\ match.action = "clickByText"
          /\ gate' = [gate EXCEPT
                        !.op = "executeClickByText",
                        !.out = [match |-> match,
                                 result |-> executeClickByText(match.params.text,
                                                               gate.elements,
                                                               gate.injected)]]
    /\ UNCHANGED <<now, page, verifier>>
    /\ UNCHANGED gatewayVars
    /\ UNCHANGED storeVars
    /\ UNCHANGED workerVars

CheckSafety ==
    /\ gate.op = "none"
    /\ gate.input = "payload"
    /\ gate' = [gate EXCEPT !.op = "checkSafety",
                            !.out = checkSafety(gate.code, "click")]
    /\ UNCHANGED <<now, page, verifier>>
    /\ UNCHANGED gatewayVars
    /\ UNCHANGED storeVars
    /\ UNCHANGED workerVars

ValidateSelectors ==
    /\ gate.op = "none"
    /\ gate.input = "payload"
    /\ gate' = [gate EXCEPT !.op = "validateSelectors",
                            !.out = validateSelectors(gate.code, gate.ids)]
    /\ UNCHANGED <<now, page, verifier>>
    /\ UNCHANGED gatewayVars
    /\ UNCHANGED storeVars
    /\ UNCHANGED workerVars

AnalyzeIntent ==
    /\ gate.op = "none"
    /\ gate.input = "intentReply"
    /\ gate' = [gate EXCEPT !.op = "analyzeIntent",
                            !.out = analyzeIntent(gate.command, gate.reply,
                                                  gate.intent)]
    /\ UNCHANGED <<now, page, verifier>>
    /\ UNCHANGED gatewayVars
    /\ UNCHANGED storeVars
    /\ UNCHANGED workerVars

GenerateCode ==
    /\ gate.op = "none"
    /\ gate.input = "codegenReply"
    /\ gate' = [gate EXCEPT !.op = "generateCode",
                            !.out = generateCode(gate.reply, gate.generated)]
    /\ UNCHANGED <<now, page, verifier>>
    /\ UNCHANGED gatewayVars
    /\ UNCHANGED storeVars
    /\ UNCHANGED workerVars

(***************************************************************************)
(* The page of a tab: parseDOMInPage, executeClick (executor)              *)
(* An identifier el-N is the number N; the element map is the sequence of  *)
(* the elements el-0, el-1, ... in this order.                             *)
(***************************************************************************)
NumNodes == 3       \* elements the document can hold
Nodes == 1..NumNodes

\* parseDOMInPage(): the on-screen interactive elements, in document
\* order, get el-0, el-1, ... (idCounter starts at 0 in every call)
parseDOMInPage(doc, hidden) ==
    LET shown == SelectSeq(doc, LAMBDA node : node \notin hidden)
    IN [elements |-> [n \in DOMAIN shown |-> [id |-> n - 1, node |-> shown[n]]],
        elementMap |-> shown]

\* elementMap.get(sel) of executeClick; 0 stands for undefined.  (The CSS
\* and text fallbacks find nothing for a selector of the form el-N.)
Resolve(elementMap, id) ==
    IF id + 1 \in DOMAIN elementMap THEN elementMap[id + 1] ELSE 0

NoPage == [doc |-> <<>>, hidden |-> {}, elementMap |-> <<>>, snapshots |-> 0,
           earlier |-> {}, latest |-> {}, clicked |-> [id |-> -1, node |-> 0]]

\* getDOMContext: parseDOMInPage runs in the page and replaces
\* window.__aiAgentElementMap.  History: the <<identifier, element>> pairs
\* the latest snapshot minted, and those the snapshots before it minted.
GetDOMContext ==
    /\ LET snap == parseDOMInPage(page.doc, page.hidden)
       IN page' = [page EXCEPT
                     !.elementMap = snap.elementMap,
                     !.snapshots = IF @ < 2 THEN @ + 1 ELSE @,
                     !.earlier = page.latest,
                     !.latest = {<<snap.elements[n].id, snap.elements[n].node>> :
                                   n \in DOMAIN snap.elements}]
    /\ UNCHANGED <<now, gate, verifier>>
    /\ UNCHANGED gatewayVars
    /\ UNCHANGED storeVars
    /\ UNCHANGED workerVars

\* the page changes under the agent: an element appears at the front or at
\* the end of the document, disappears, or is hidden or shown
PageChanges(node, change) ==
    /\ CASE change = "prepend" ->
              /\ node \notin Range(page.doc)
              /\ page' = [page EXCEPT !.doc = <<node>> \o @]
         [] change = "append" ->
              /\ node \notin Range(page.doc)
              /\ page' = [page EXCEPT !.doc = Append(@, node)]
         [] change = "remove" ->
              /\ node \in Range(page.doc)
              /\ page' = [page EXCEPT
                            !.doc = SelectSeq(@, LAMBDA m : m # node),
                            !.hidden = @ \ {node}]
         [] change = "toggle" ->
              /\ node \in Range(page.doc)
              /\ page' = [page EXCEPT
                            !.hidden = IF node \in @ THEN @ \ {node}
                                       ELSE @ \cup {node}]
    /\ UNCHANGED <<now, gate, verifier>>
    /\ UNCHANGED gatewayVars
    /\ UNCHANGED storeVars
    /\ UNCHANGED workerVars

\* executeClick(sel) with an identifier for selector
ExecuteClick(id) ==
    /\ page' = [page EXCEPT
                  !.clicked = [id |-> id, node |-> Resolve(page.elementMap, id)]]
    /\ UNCHANGED <<now, gate, verifier>>
    /\ UNCHANGED gatewayVars
    /\ UNCHANGED storeVars
    /\ UNCHANGED workerVars

(***************************************************************************)
(* Verifier (executor): verifyAction                                       *)
(* A URL and an expected result are sequences of atoms; <<>> is the empty  *)
(* string, and the url of a tab whose url is undefined.                    *)
(***************************************************************************)
MaxVerifyCalls == 2     \* verifyAction calls made in one behaviour

\* the verification of a generated action; type "absent" stands for a
\* verification that is undefined or null
VerificationTypes == {"none", "navigation", "domChange", "styleChange"}
ExpectedResults == {<<>>, <<"example">>, <<"EXAMPLE", ".com">>}
NoVerification == [type |-> "absent", expectedResult |-> <<>>]
Verifications ==
    {NoVerification}
    \cup [type : VerificationTypes, expectedResult : ExpectedResults]

\* the tab: open is FALSE when chrome.tabs.get(tabId) rejects
TabUrls == {<<>>, <<"https://", "Example", ".com">>, <<"https://", "other", ".org">>}
TabStates == [url : TabUrls, status : {"loading", "complete"}, open : BOOLEAN]

\* String.prototype.includes
Includes(text, part) ==
    \E i \in 1..(Len(text) + 1) :
        /\ i + Len(part) - 1 <= Len(text)
        /\ SubSeq(text, i, i + Len(part) - 1) = part

\* !verification || verification.type === 'none'
SkipsOnlyAbsent(verification) == verification.type = "absent"
Skips(verification) == verification.type \in {"absent", "none"}

\* currentUrl.includes(expected) || tab.status === 'loading'
UrlMatchesExactCase(tab, expectedResult) ==
    Includes(tab.url, expectedResult) \/ tab.status = "loading"
UrlMatches(tab, expectedResult) ==
    \/ Includes(LowerAll(tab.url), LowerAll(expectedResult))
    \/ tab.status = "loading"

\* verifyAction: its result, whether it waited for the settle delay
\* (setTimeout 300) and whether it called chrome.tabs.get
verifyAction(verification, tab) ==
    IF Skips(verification)
    THEN [success |-> TRUE, actualResult |-> "Skipped",
          waited |-> FALSE, queried |-> FALSE]
    ELSE IF verification.type # "navigation"
    THEN [success |-> TRUE, actualResult |-> "Verified",
          waited |-> TRUE, queried |-> FALSE]
    ELSE IF verification.expectedResult = <<>>
    THEN [success |-> TRUE, actualResult |-> "Navigation initiated",
          waited |-> TRUE, queried |-> FALSE]
    ELSE IF ~tab.open
    THEN [success |-> TRUE, actualResult |-> "Verification skipped due to error",
          waited |-> TRUE, queried |-> TRUE]
    ELSE [success |-> UrlMatches(tab, verification.expectedResult),
          actualResult |-> "url", waited |-> TRUE, queried |-> TRUE]

\* history: the calls made, the timers set and the chrome.tabs.get calls
\* made by them, the last result and the tab as the last call found it
NoVerifier == [verification |-> NoVerification,
               tab |-> [url |-> <<>>, status |-> "complete", open |-> TRUE],
               calls |-> 0, timers |-> 0, queries |-> 0,
               out |-> [success |-> TRUE, actualResult |-> "none",
                        waited |-> FALSE, queried |-> FALSE],
               seen |-> [url |-> <<>>, status |-> "complete", open |-> TRUE]]

VerifyAction ==
    /\ verifier.calls < MaxVerifyCalls
    /\ LET result == verifyAction(verifier.verification, verifier.tab)
       IN verifier' = [verifier EXCEPT
                         !.calls = @ + 1,
                         !.timers = IF result.waited THEN @ + 1 ELSE @,
                         !.queries = IF result.queried THEN @ + 1 ELSE @,
                         !.out = result,
                         !.seen = verifier.tab]
    /\ UNCHANGED <<now, gate, page>>
    /\ UNCHANGED gatewayVars
    /\ UNCHANGED storeVars
    /\ UNCHANGED workerVars

\* the tab navigates, finishes loading, or is closed
TabChanges(tab) ==
    /\ tab # verifier.tab
    /\ verifier' = [verifier EXCEPT !.tab = tab]
    /\ UNCHANGED <<now, gate, page>>
    /\ UNCHANGED gatewayVars
    /\ UNCHANGED storeVars
    /\ UNCHANGED workerVars

ToolInit ==
    /\ gate = NoGate
    /\ page = NoPage
    /\ verifier = NoVerifier

(***************************************************************************)
(* Service worker (background): settings, message handlers                 *)
(***************************************************************************)
NumTabs == 2            \* tab ids 1..NumTabs; 0 stands for undefined
NumCmds == 2            \* PROCESS_COMMAND messages in one behaviour
NumPanelCmds == 1       \* of these, the messages a single side panel sends
SavedMaxRetries == 1    \* the maxRetries the user saves on the options page
WorkerTickMs == 1000000 \* clock step of the service worker
MaxWorkerTimeMs == 2000000

Tabs == 1..NumTabs
Cmds == 1..NumCmds
PanelCmds == 1..NumPanelCmds
\* the commands sent: one that a fast-path rule matches, one that none does
WorkerCommands == {<<"scroll", "_", "down">>, <<"click", "_", "submit">>}
Answers == {<<"the", "_", "blue", "_", "one">>}
\* the payloads of the generated actions: one that a blocking rule matches,
\* one that an advisory rule matches, one that no rule matches
WorkerCodes == {<<"chrome", ".", "tabs">>, <<"delete">>, <<"scroll">>}
\* the objects the model answers the worker's stages with: an intent that is
\* clear, one that asks between two options; a generation that fails, one
\* whose action has no actionType, one action for every payload
WorkerIntents ==
    {[clear |-> TRUE, clarificationQuestion |-> "null",
      clarificationOptions |-> -1, parsedIntent |-> FillIntent],
     [clear |-> FALSE, clarificationQuestion |-> "text",
      clarificationOptions |-> 2, parsedIntent |-> NoIntent]}
WorkerGenerations ==
    {[success |-> FALSE, actions |-> <<>>],
     [success |-> TRUE, actions |-> <<[actionType |-> "", code |-> <<"scroll">>]>>]}
    \cup {[success |-> TRUE, actions |-> <<[actionType |-> "click", code |-> code]>>] :
            code \in WorkerCodes}

defaultMaxRetries == 3
DEFAULT_SETTINGS == [provider |-> "claude", apiKey |-> "",
                     maxRetries |-> defaultMaxRetries]

\* settings = { ...DEFAULT_SETTINGS, ...stored }
\* (the options page stores the whole settings object; saved is FALSE while
\* the storage holds none of the keys yet)
loadSettings(stored) ==
    IF ~stored.saved THEN DEFAULT_SETTINGS
    ELSE [DEFAULT_SETTINGS EXCEPT !.apiKey = stored.apiKey,
                                  !.maxRetries = stored.maxRetries]

IdleCmd == [pc |-> "idle", tab |-> 0, command |-> <<>>, settings |-> DEFAULT_SETTINGS,
            session |-> 0, aiCalls |-> 0, codegens |-> 0, code |-> <<>>,
            retries |-> 0, clear |-> TRUE, options |-> -1, result |-> "none"]

\* the awaits of processPipeline: a command standing at one of them has its
\* user message recorded and its assistant message not yet
PipelineStages == {"fastPathExec", "snapshot", "intent", "codegen",
                   "confirmation", "execution", "verification"}
InFlight(c) == cmd[c].pc \in PipelineStages

\* processPipeline up to its first await: the Pattern Matcher is tried
\* first; a match goes to execution, no match goes on to the model stages
PipelineEntryIgnoresMatch(command) == "snapshot"
PipelineEntry(command) ==
    IF checkFastPath(command).matched THEN "fastPathExec" ELSE "snapshot"

\* handleProcessCommand from the API-key check to the await of
\* processPipeline: getOrCreateSession, addMessage(user), processPipeline(...)
EnterPipeline(c, tabId, command, st) ==
    LET r == getOrCreateSession(sessions, heap, cleanup, tabId, now)
    IN /\ sessions' = r.sessions
       /\ cleanup' = r.cleanup
       /\ heap' = [r.heap EXCEPT ![r.session] =
                     addMessage(@, [role |-> "user", cmd |-> c])]
       /\ cmd' = [cmd EXCEPT ![c] =
                    [pc |-> PipelineEntry(command), tab |-> tabId,
                     command |-> command, settings |-> st,
                     session |-> r.session, aiCalls |-> 0, codegens |-> 0,
                     code |-> <<>>, retries |-> 0, clear |-> TRUE,
                     options |-> -1, result |-> "none"]]

\* a handler returns without entering the try block
Reject(c, tabId, command, why) ==
    /\ cmd' = [cmd EXCEPT ![c] = [IdleCmd EXCEPT !.pc = "done", !.tab = tabId,
                                   !.command = command, !.result = why]]
    /\ UNCHANGED storeVars

\* A PROCESS_COMMAND message arrives: handleMessage -> handleProcessCommand,
\* run to its first await.  senderTab is sender.tab?.id.
ProcessCommand(c, command, payloadTab, senderTab) ==
    /\ cmd[c].pc = "idle"
    /\ \A d \in Cmds : d < c => cmd[d].pc # "idle"
    /\ LET effectiveTabId == IF payloadTab # 0 THEN payloadTab ELSE senderTab
       IN IF effectiveTabId = 0
          THEN Reject(c, 0, command, "noTab")
          ELSE IF settings.apiKey = ""
          THEN /\ cmd' = [cmd EXCEPT ![c] =
                            [IdleCmd EXCEPT !.pc = "loadSettings",
                                            !.tab = effectiveTabId,
                                            !.command = command]]
               /\ UNCHANGED storeVars
          ELSE EnterPipeline(c, effectiveTabId, command, settings)
    /\ UNCHANGED <<now, settings, storage, clar>>
    /\ UNCHANGED gatewayVars
    /\ UNCHANGED toolVars

\* `await loadSettings()' of handleProcessCommand resolves; loaded is FALSE
\* when chrome.storage.local.get rejected (the catch keeps the old settings)
LoadSettingsDone(c, loaded) ==
    /\ cmd[c].pc = "loadSettings"
    /\ LET st == IF loaded THEN loadSettings(storage) ELSE settings
       IN /\ settings' = st
          /\ IF st.apiKey = ""
             THEN Reject(c, cmd[c].tab, cmd[c].command, "noApiKey")
             ELSE EnterPipeline(c, cmd[c].tab, cmd[c].command, st)
    /\ UNCHANGED <<now, storage, clar>>
    /\ UNCHANGED gatewayVars
    /\ UNCHANGED toolVars

\* processPipeline resolved with `result': addMessage(assistant), return.
\* rec is the command's record as the last stage left it; the payload of an
\* action is kept in the record of a finished command only if it was blocked.
Finish(c, hp, rec, result) ==
    /\ heap' = [hp EXCEPT ![cmd[c].session] =
                  addMessage(@, [role |-> "assistant", cmd |-> c])]
    /\ cmd' = [cmd EXCEPT ![c] =
                 [rec EXCEPT !.pc = "done", !.result = result,
                             !.code = IF result = "unsafe" THEN @ ELSE <<>>]]

\* processPipeline rejected: the catch block returns the error, no message
PipelineThrows(c) ==
    /\ InFlight(c)
    /\ cmd' = [cmd EXCEPT ![c].pc = "done", ![c].result = "exception",
                          ![c].code = <<>>]
    /\ UNCHANGED <<now, settings, storage, clar>>
    /\ UNCHANGED storeVars
    /\ UNCHANGED gatewayVars
    /\ UNCHANGED toolVars

\* fast path: executeFastPathAction resolves
FastPathExec(c, ok) ==
    /\ cmd[c].pc = "fastPathExec"
    /\ Finish(c, heap, cmd[c], IF ok THEN "success" ELSE "executionFailed")
    /\ UNCHANGED <<now, sessions, cleanup, settings, storage, clar>>
    /\ UNCHANGED gatewayVars
    /\ UNCHANGED toolVars

\* getDOMContext resolves with the page snapshot
Snapshot(c) ==
    /\ cmd[c].pc = "snapshot"
    /\ cmd' = [cmd EXCEPT ![c].pc = "intent"]
    /\ UNCHANGED <<now, settings, storage, clar>>
    /\ UNCHANGED storeVars
    /\ UNCHANGED gatewayVars
    /\ UNCHANGED toolVars

\* where the orchestrator goes with the Intent Resolver's decision
IntentRouteAlwaysCodegen(decision) == "codegen"
IntentRoute(decision) == IF decision.clear THEN "codegen" ELSE "clarification"

\* analyzeIntent resolves with its decision: clear, or a clarification is
\* surfaced to the caller and the pipeline returns
Intent(c, reply, parsed) ==
    /\ cmd[c].pc = "intent"
    /\ LET decision == analyzeIntent(cmd[c].command, reply, parsed)
           rec == [cmd[c] EXCEPT !.aiCalls = @ + decision.calls,
                                 !.clear = decision.clear,
                                 !.options = decision.clarificationOptions]
       IN IF IntentRoute(decision) = "codegen"
          THEN /\ cmd' = [cmd EXCEPT ![c] = [rec EXCEPT !.pc = "codegen"]]
               /\ UNCHANGED heap
          ELSE Finish(c, heap, rec, "clarification")
    /\ UNCHANGED <<now, sessions, cleanup, settings, storage, clar>>
    /\ UNCHANGED gatewayVars
    /\ UNCHANGED toolVars

\* where the orchestrator goes with the Safety Gate's verdict
SafetyRouteIgnoresVerdict(verdict) == "execution"
SafetyRoute(verdict) ==
    IF ~verdict.safe THEN "error"
    ELSE IF "requiresConfirmation" \in DOMAIN verdict THEN "confirmation"
    ELSE "execution"

\* generateCode resolves, and the Safety Gate checks the payload of the
\* action it generated: no valid action and a blocked action end the
\* pipeline, a flagged action waits for the user's confirmation
Codegen(c, reply, parsed) ==
    /\ cmd[c].pc = "codegen"
    /\ LET generated == generateCode(reply, parsed)
           code == IF generated.success THEN generated.actions[1].code ELSE <<>>
           rec == [cmd[c] EXCEPT !.aiCalls = @ + generated.calls,
                                 !.codegens = @ + 1,
                                 !.code = code]
           route == SafetyRoute(checkSafety(code, "click"))
       IN IF ~generated.success THEN Finish(c, heap, rec, "codegenFailed")
          ELSE IF route = "error" THEN Finish(c, heap, rec, "unsafe")
          ELSE /\ cmd' = [cmd EXCEPT ![c] = [rec EXCEPT !.pc = route]]
               /\ UNCHANGED heap
    /\ UNCHANGED <<now, sessions, cleanup, settings, storage, clar>>
    /\ UNCHANGED gatewayVars
    /\ UNCHANGED toolVars

\* the user answers the confirmation of a flagged action
Confirm(c, yes) ==
    /\ cmd[c].pc = "confirmation"
    /\ IF yes
       THEN /\ cmd' = [cmd EXCEPT ![c].pc = "execution"]
            /\ UNCHANGED heap
       ELSE Finish(c, heap, cmd[c], "declined")
    /\ UNCHANGED <<now, sessions, cleanup, settings, storage, clar>>
    /\ UNCHANGED gatewayVars
    /\ UNCHANGED toolVars

\* attempts remain while fewer than maxRetries regenerations were made
AttemptsRemainOneMore(c) == cmd[c].retries <= cmd[c].settings.maxRetries
AttemptsRemain(c) == cmd[c].retries < cmd[c].settings.maxRetries

\* a failed attempt: regenerate while attempts remain, else end in error
RetryOrFail(c, hp, requiresRetry, why) ==
    IF requiresRetry /\ AttemptsRemain(c)
    THEN /\ cmd' = [cmd EXCEPT ![c].pc = "codegen", ![c].retries = @ + 1]
         /\ heap' = hp
    ELSE Finish(c, hp, cmd[c],
                IF requiresRetry THEN "retriesExhausted" ELSE why)

\* executeAction resolves
Execution(c, ok, requiresRetry) ==
    /\ cmd[c].pc = "execution"
    /\ IF ok
       THEN /\ cmd' = [cmd EXCEPT ![c].pc = "verification"]
            /\ UNCHANGED heap
       ELSE RetryOrFail(c, heap, requiresRetry, "executionFailed")
    /\ UNCHANGED <<now, sessions, cleanup, settings, storage, clar>>
    /\ UNCHANGED gatewayVars
    /\ UNCHANGED toolVars

\* verifyAction resolves; a failure counts as an execution failure
Verification(c, ok) ==
    /\ cmd[c].pc = "verification"
    /\ IF ok THEN Finish(c, heap, cmd[c], "success")
       ELSE RetryOrFail(c, heap, TRUE, "verificationFailed")
    /\ UNCHANGED <<now, sessions, cleanup, settings, storage, clar>>
    /\ UNCHANGED gatewayVars
    /\ UNCHANGED toolVars

\* A tab's session is suspended: its last command ended asking for
\* clarification
Suspended(t) ==
    \E c \in Cmds : cmd[c].pc = "done" /\ cmd[c].tab = t
                     /\ cmd[c].result = "clarification"

\* A CLARIFICATION_RESPONSE message: handleClarificationResponse, which has
\* no await
ClarificationResponse(senderTab, answer) ==
    /\ LET r == getSession(sessions, heap, senderTab, now)
       IN IF senderTab = 0 \/ r.session = 0
          THEN /\ clar' = [tab |-> senderTab, answer |-> answer,
                           success |-> FALSE, suspended |-> FALSE]
               /\ UNCHANGED heap
          ELSE /\ heap' = [r.heap EXCEPT ![r.session] =
                             setClarification(@, answer)]
               /\ clar' = [tab |-> senderTab, answer |-> answer,
                           success |-> TRUE, suspended |-> Suspended(senderTab)]
    /\ UNCHANGED <<now, sessions, cleanup, settings, storage, cmd>>
    /\ UNCHANGED gatewayVars
    /\ UNCHANGED toolVars

\* `settings = { ...DEFAULT_SETTINGS, ...stored }' assigns a new object to
\* the worker's variable: the object a running pipeline was handed
\* (rec.settings) is not written
HeldSettingsWrittenInPlace(rec, loaded) ==
    IF rec.pc \in PipelineStages THEN loaded ELSE rec.settings
HeldSettings(rec, loaded) == rec.settings

\* A SETTINGS_UPDATED message: await loadSettings()
SettingsUpdated ==
    /\ settings' = loadSettings(storage)
    /\ cmd' = [c \in Cmds |->
                 [cmd[c] EXCEPT !.settings = HeldSettings(cmd[c], settings')]]
    /\ UNCHANGED <<now, storage, clar>>
    /\ UNCHANGED storeVars
    /\ UNCHANGED gatewayVars
    /\ UNCHANGED toolVars

\* the options page saves its settings to chrome.storage.local
SaveSettings(k) ==
    /\ storage' = [saved |-> TRUE, apiKey |-> k, maxRetries |-> SavedMaxRetries]
    /\ UNCHANGED <<now, settings, cmd, clar>>
    /\ UNCHANGED storeVars
    /\ UNCHANGED gatewayVars
    /\ UNCHANGED toolVars

WorkerTick ==
    /\ now + WorkerTickMs <= MaxWorkerTimeMs
    /\ now' = now + WorkerTickMs
    /\ UNCHANGED gatewayVars
    /\ UNCHANGED toolVars
    /\ UNCHANGED storeVars
    /\ UNCHANGED workerVars

WorkerInit ==
    /\ settings = DEFAULT_SETTINGS
    /\ storage = [saved |-> FALSE, apiKey |-> "", maxRetries |-> 0]
    /\ cmd = [c \in Cmds |-> IdleCmd]
    /\ clar = [tab |-> 0, answer |-> <<>>, success |-> FALSE,
               suspended |-> FALSE]

LimiterInit ==
    /\ requests = <<>>
    /\ rl = [calls |-> 0, firstAt |-> -1, lastAt |-> -1, lastRet |-> FALSE,
             lastCaller |-> 0, prevMax |-> -1, lastFree |-> maxRequests,
             prev |-> [at |-> -1, ret |-> FALSE, caller |-> 0,
                       free |-> maxRequests],
             admits |-> 0, admitted |-> <<>>, rejected |-> FALSE,
             wait |-> NoWait]
    /\ ai = [sent |-> FALSE, result |-> "none", key |-> "", provider |-> "none",
             response |-> NoResponse, atCapacity |-> FALSE]

GatewayInit ==
    /\ now = 0
    /\ LimiterInit
    /\ sessions = <<>>
    /\ heap = <<>>
    /\ cleanup = NoCleanup
    /\ WorkerInit
    /\ ToolInit

\* the limiter alone, under a running clock
LimiterNext ==
    \/ \E c \in Callers : canProceed(c)
    \/ Tick

SpecLimiter == GatewayInit /\ [][LimiterNext]_vars

\* the limiter and callers that ask it for the time to wait
BackoffNext ==
    \/ \E c \in Callers : canProceed(c)
    \/ GetWaitTime
    \/ Tick

SpecBackoff == GatewayInit /\ [][BackoffNext]_vars

\* the gateway: callers of the limiter and callers of callAI, interleaved
GatewayNext ==
    \/ \E c \in Callers : canProceed(c)
    \/ CallAI

SpecGateway == GatewayInit /\ [][GatewayNext]_vars

\* one caller of callAI, a provider that answers or does not, and a clock
\* that keeps running
GatewayLiveNext ==
    \/ \E p \in Providers \cup {"other"}, k \in ApiKeys : Fetch(p, k)
    \/ \E resp \in Responses : Respond(resp)
    \/ FetchRejects
    \/ Tick

SpecGatewayLive == GatewayInit /\ [][GatewayLiveNext]_vars /\ WF_vars(Tick)

SessionsInit ==
    /\ now = SessionTickMs
    /\ LimiterInit
    /\ sessions = [i \in 1..PreFilled |-> i]
    /\ heap = [i \in 1..PreFilled |->
                [NewSession(i, i, 0) EXCEPT !.lastActivityAt = StartActivity(i)]]
    /\ cleanup = NoCleanup
    /\ WorkerInit
    /\ ToolInit

SessionsNext ==
    \/ \E t \in StoreTabs : GetOrCreateSession(t)
    \/ \E t \in StoreTabs : GetSession(t)
    \/ \E t \in StoreTabs : RemoveSession(t)
    \/ SessionTick

SpecSessions == SessionsInit /\ [][SessionsNext]_vars

\* the session store when every stored session was last used at the same
\* instant (lookups made one after the other within one millisecond)
TiedInit ==
    /\ now = SessionTickMs
    /\ LimiterInit
    /\ sessions = [i \in 1..PreFilled |-> i]
    /\ heap = [i \in 1..PreFilled |->
                [NewSession(i, i, 0) EXCEPT !.lastActivityAt = SessionTickMs]]
    /\ cleanup = NoCleanup
    /\ WorkerInit
    /\ ToolInit

TiedNext ==
    \/ \E t \in StoreTabs : GetOrCreateSession(t)
    \/ \E t \in StoreTabs : RemoveSession(t)
    \/ SessionTick

SpecTiedStore == TiedInit /\ [][TiedNext]_vars

\* the store serving lookups: an old tab that has a session from the start
\* and two further tabs are looked up and served
OldTab == 2
LookupTabs == {OldTab, PreFilled + 1, PreFilled + 2}

LookupNext ==
    \/ \E t \in LookupTabs : GetOrCreateSession(t)
    \/ \E t \in LookupTabs : GetSession(t)
    \/ SessionTick

SpecLookups == SessionsInit /\ [][LookupNext]_vars

\* the tabs whose sessions are written: holders of a SessionWrapper of any
\* Session object made for these tabs, stored or not any more, call its
\* methods; each method writes a session at most once, in the order of a
\* command: its message, the action run for it, the answer asked for
WrapperTabs == {OldTab, PreFilled + 1}
Wrapped == {id \in DOMAIN heap : heap[id].tabId \in WrapperTabs}

WrapperAddMessage(id) ==
    /\ heap[id].messages = <<>>
    /\ heap' = [heap EXCEPT ![id] = addMessage(@, [role |-> "user", cmd |-> id])]
    /\ UNCHANGED <<now, sessions, cleanup>>
    /\ UNCHANGED gatewayVars
    /\ UNCHANGED workerVars
    /\ UNCHANGED toolVars

WrapperRecordAction(id) ==
    /\ heap[id].messages # <<>>
    /\ heap[id].actionHistory = <<>>
    /\ heap' = [heap EXCEPT ![id] = recordAction(@, [success |-> TRUE, cmd |-> id])]
    /\ UNCHANGED <<now, sessions, cleanup>>
    /\ UNCHANGED gatewayVars
    /\ UNCHANGED workerVars
    /\ UNCHANGED toolVars

WrapperSetClarification(id, answer) ==
    /\ heap[id].actionHistory # <<>>
    /\ heap[id].pendingClarification = "null"
    /\ heap' = [heap EXCEPT ![id] = setClarification(@, answer)]
    /\ UNCHANGED <<now, sessions, cleanup>>
    /\ UNCHANGED gatewayVars
    /\ UNCHANGED workerVars
    /\ UNCHANGED toolVars

IsolationNext ==
    \/ \E t \in LookupTabs : GetOrCreateSession(t)
    \/ SessionTick
    \/ \E id \in Wrapped : WrapperAddMessage(id)
    \/ \E id \in Wrapped : WrapperRecordAction(id)
    \/ \E id \in Wrapped, answer \in Answers : WrapperSetClarification(id, answer)

SpecIsolation == SessionsInit /\ [][IsolationNext]_vars

\* the Safety Filter called again and again: the payloads of the calls hold
\* a word an advisory rule matches and a call a blocking rule matches, at
\* different places; gate.prev holds the state of the patterns
MaxSafetyCalls == 3     \* checkSafety calls made in one behaviour
MaxRepeatedLen == 3     \* atoms in a payload that is checked
RepeatedPayloads == Codes({"delete", "_", "Eval", "("}, MaxRepeatedLen)

SafetyCallsInit ==
    /\ now = 0
    /\ LimiterInit
    /\ sessions = <<>>
    /\ heap = <<>>
    /\ cleanup = NoCleanup
    /\ WorkerInit
    /\ gate = [NoGate EXCEPT !.prev = FreshPatterns]
    /\ page = NoPage
    /\ verifier = NoVerifier

CheckSafetyAgain(code) ==
    /\ gate.calls < MaxSafetyCalls
    /\ LET r == checkSafetyOn(code, gate.prev)
       IN gate' = [gate EXCEPT !.op = "checkSafety", !.code = code,
                               !.calls = @ + 1, !.prev = r.lastIndexes,
                               !.out = r.verdict]
    /\ UNCHANGED <<now, page, verifier>>
    /\ UNCHANGED gatewayVars
    /\ UNCHANGED storeVars
    /\ UNCHANGED workerVars

SafetyCallsNext == \E code \in RepeatedPayloads : CheckSafetyAgain(code)

SpecSafetyCalls == SafetyCallsInit /\ [][SafetyCallsNext]_vars

\* the service worker: a freshly started worker handles messages
Init ==
    /\ now = 0
    /\ LimiterInit
    /\ sessions = <<>>
    /\ heap = <<>>
    /\ cleanup = NoCleanup
    /\ WorkerInit
    /\ ToolInit

Next ==
    \/ \E c \in Cmds, command \in WorkerCommands, pt, st \in Tabs \cup {0} :
         ProcessCommand(c, command, pt, st)
    \/ \E c \in Cmds, loaded \in BOOLEAN : LoadSettingsDone(c, loaded)
    \/ \E c \in Cmds : PipelineThrows(c)
    \/ \E c \in Cmds, ok \in BOOLEAN : FastPathExec(c, ok)
    \/ \E c \in Cmds : Snapshot(c)
    \/ \E c \in Cmds, reply \in ReplyKinds, parsed \in WorkerIntents :
         Intent(c, reply, parsed)
    \/ \E c \in Cmds, reply \in ReplyKinds, parsed \in WorkerGenerations :
         Codegen(c, reply, parsed)
    \/ \E c \in Cmds, yes \in BOOLEAN : Confirm(c, yes)
    \/ \E c \in Cmds, ok, requiresRetry \in BOOLEAN : Execution(c, ok, requiresRetry)
    \/ \E c \in Cmds, ok \in BOOLEAN : Verification(c, ok)
    \/ SettingsUpdated
    \/ \E k \in ApiKeys \ {""} : SaveSettings(k)
    \/ WorkerTick

Spec == Init /\ [][Next]_vars

\* the same worker serving a single side panel, which sends its next
\* command only after the response to the last one (its isProcessing flag)
PanelNext ==
    \/ \E c \in PanelCmds, command \in WorkerCommands, pt, st \in Tabs \cup {0} :
         /\ \A d \in Cmds : cmd[d].pc \in {"idle", "done"}
         /\ ProcessCommand(c, command, pt, st)
    \/ \E c \in PanelCmds, loaded \in BOOLEAN : LoadSettingsDone(c, loaded)
    \/ \E c \in PanelCmds : PipelineThrows(c)
    \/ \E c \in PanelCmds, ok \in BOOLEAN : FastPathExec(c, ok)
    \/ \E c \in PanelCmds : Snapshot(c)
    \/ \E c \in PanelCmds, reply \in ReplyKinds, parsed \in WorkerIntents :
         Intent(c, reply, parsed)
    \/ \E c \in PanelCmds, reply \in ReplyKinds, parsed \in WorkerGenerations :
         Codegen(c, reply, parsed)
    \/ \E c \in PanelCmds, yes \in BOOLEAN : Confirm(c, yes)
    \/ \E c \in PanelCmds, ok, requiresRetry \in BOOLEAN : Execution(c, ok, requiresRetry)
    \/ \E c \in PanelCmds, ok \in BOOLEAN : Verification(c, ok)
    \/ \E t \in Tabs \cup {0}, answer \in Answers : ClarificationResponse(t, answer)
    \/ SettingsUpdated
    \/ \E k \in ApiKeys \ {""} : SaveSettings(k)

SpecPanel == Init /\ [][PanelNext]_vars

\* the Safety Filter and the model stages, each called once on arguments
\* drawn from the bounded sets
FilterInit ==
    /\ now = 0
    /\ LimiterInit
    /\ sessions = <<>>
    /\ heap = <<>>
    /\ cleanup = NoCleanup
    /\ WorkerInit
    /\ (PayloadInput(gate) \/ gate \in GateInputs)
    /\ page = NoPage
    /\ verifier = NoVerifier

FilterNext ==
    \/ CheckSafety
    \/ ValidateSelectors
    \/ AnalyzeIntent
    \/ GenerateCode
    \/ CheckFastPath
    \/ ExecuteClickByText

SpecFilter == FilterInit /\ [][FilterNext]_vars

\* the worker serving the side panel of tab 1, whose user saves new
\* settings while commands run: the command in flight and the one after it
SettingsCmds == {1, 2}
SettingsNext ==
    \/ \E c \in SettingsCmds, command \in WorkerCommands :
         /\ \A d \in SettingsCmds : cmd[d].pc \in {"idle", "done"}
         /\ ProcessCommand(c, command, 1, 0)
    \/ \E c \in SettingsCmds, loaded \in BOOLEAN : LoadSettingsDone(c, loaded)
    \/ \E c \in SettingsCmds : PipelineThrows(c)
    \/ \E c \in SettingsCmds, ok \in BOOLEAN : FastPathExec(c, ok)
    \/ \E c \in SettingsCmds : Snapshot(c)
    \/ \E c \in SettingsCmds, reply \in ReplyKinds, parsed \in WorkerIntents :
         Intent(c, reply, parsed)
    \/ \E c \in SettingsCmds, reply \in ReplyKinds, parsed \in WorkerGenerations :
         Codegen(c, reply, parsed)
    \/ \E c \in SettingsCmds, yes \in BOOLEAN : Confirm(c, yes)
    \/ \E c \in SettingsCmds, ok, requiresRetry \in BOOLEAN : Execution(c, ok, requiresRetry)
    \/ \E c \in SettingsCmds, ok \in BOOLEAN : Verification(c, ok)
    \/ SettingsUpdated
    \/ \E k \in SavedKeys : SaveSettings(k)

SpecSettings == Init /\ [][SettingsNext]_vars

\* one session and its histories
HistoryInit ==
    /\ now = 0
    /\ LimiterInit
    /\ sessions = <<1>>
    /\ heap = <<NewSession(1, 1, 0)>>
    /\ cleanup = NoCleanup
    /\ WorkerInit
    /\ ToolInit

HistoryNext ==
    \/ AddMessage
    \/ RecordAction

SpecHistory == HistoryInit /\ [][HistoryNext]_vars

\* the conversation of one session: messages are added and the context is
\* asked for, with the default size among the sizes
ContextSizes == {0, 1, 10, 101}

GetConversationContext(n) ==
    /\ gate' = [NoGate EXCEPT !.op = "getConversationContext", !.calls = n,
                              !.prev = [messages |-> heap[1].messages],
                              !.out = [context |->
                                         getConversationContext(heap[1], n)]]
    /\ UNCHANGED <<now, page, verifier>>
    /\ UNCHANGED gatewayVars
    /\ UNCHANGED storeVars
    /\ UNCHANGED workerVars

ContextNext ==
    \/ AddMessage
    \/ \E n \in ContextSizes : GetConversationContext(n)

SpecContext == HistoryInit /\ [][ContextNext]_vars

\* the Verifier, called for one verification on a tab that changes under it
VerifierInit ==
    /\ now = 0
    /\ LimiterInit
    /\ sessions = <<>>
    /\ heap = <<>>
    /\ cleanup = NoCleanup
    /\ WorkerInit
    /\ gate = NoGate
    /\ page = NoPage
    /\ verifier \in {[NoVerifier EXCEPT !.verification = verification] :
                       verification \in Verifications}

VerifierNext ==
    \/ VerifyAction
    \/ \E tab \in TabStates : TabChanges(tab)

SpecVerifier == VerifierInit /\ [][VerifierNext]_vars

\* one tab's page: snapshots, clicks, and a document that changes
PageNext ==
    \/ GetDOMContext
    \/ \E node \in Nodes, change \in {"prepend", "append", "remove", "toggle"} :
         PageChanges(node, change)
    \/ \E id \in 0..(NumNodes - 1) : ExecuteClick(id)

SpecPage == Init /\ [][PageNext]_vars

(***************************************************************************)
(* Claims about the rate limiter and the gateway                           *)
(***************************************************************************)

\* C1: starting from an empty limiter, while all canProceed() calls fall in
\* one window (less than windowMs after the first), the call returns true
\* exactly when it is one of the first maxRequests calls; and a call made at
\* least windowMs after every recorded timestamp returns true.
C1_WindowAdmitsExactlyCap ==
    /\ (rl.calls > 0 /\ rl.lastAt - rl.firstAt < windowMs)
          => (rl.lastRet <=> rl.calls <= maxRequests)
    /\ (rl.calls > 0 /\ rl.prevMax >= 0 /\ rl.lastAt - rl.prevMax >= windowMs)
          => rl.lastRet

\* a full window was rejected, and the call made once the window had
\* elapsed was admitted again
C1_Witness ==
    /\ rl.rejected
    /\ rl.calls > maxRequests + 1
    /\ rl.prevMax >= 0
    /\ rl.lastAt - rl.prevMax >= windowMs
    /\ rl.lastRet

\* C2: canProceed() is one atomic evict-check-record step: a call is admitted
\* only into a slot it saw free, and of two calls by different callers at
\* the same instant that find a single free slot, only the first is admitted.
C2_AtomicCheckAndRecord ==
    /\ Len(requests) <= maxRequests
    /\ (rl.calls > 0 /\ rl.lastRet) => rl.lastFree >= 1
    /\ (rl.calls > 1 /\ rl.prev.at = rl.lastAt /\ rl.prev.free = 1
          /\ rl.prev.caller # rl.lastCaller)
          => ~(rl.prev.ret /\ rl.lastRet)

\* two different callers raced for the last free slot: one got it
C2_Witness ==
    /\ rl.calls > 1
    /\ rl.prev.at = rl.lastAt
    /\ rl.prev.free = 1
    /\ rl.prev.caller # rl.lastCaller
    /\ rl.prev.ret
    /\ ~rl.lastRet

\* C3: every request callAI sends to a provider follows an admitting
\* canProceed() call, and none is sent while the limiter is at capacity.
C3_LimiterGatesCalls ==
    ai.sent => (rl.admits > 0 /\ ~ai.atCapacity)

(***************************************************************************)
(* Claims about the session store                                          *)
(***************************************************************************)
\* lastActivityAt only grows, and only for stored sessions: a session that
\* compared older or expired when cleanup ran still does
Activity(id) == heap[id].lastActivityAt
CleanupRemoved == cleanup.expired \cup cleanup.evicted
CleanupKept == Range(cleanup.entry) \ CleanupRemoved

\* C4 as claimed: when creating a session brings the store above maxSessions,
\* cleanup removes exactly the sessions with the smallest lastActivityAt
\* until the cap is met and no others; the store never holds more than
\* maxSessions sessions.
C4_EvictsOnlyOldestToCap ==
    /\ Len(sessions) <= maxSessions
    /\ (cleanup.ran /\ Len(cleanup.entry) > maxSessions)
          => /\ Cardinality(CleanupRemoved) = Len(cleanup.entry) - maxSessions
             /\ \A r \in CleanupRemoved, k \in CleanupKept :
                   Activity(r) <= Activity(k)

\* C4 as amended: the cleanup run by a creation first removes every session
\* idle for more than sessionTimeout; then, if the store is still above
\* maxSessions, it removes exactly the sessions with the smallest
\* lastActivityAt until the cap is met, and no others; the store never holds
\* more than maxSessions sessions.
C4_ExpiredThenOldestToCap ==
    /\ Len(sessions) <= maxSessions
    /\ cleanup.ran
          => /\ cleanup.expired =
                   {id \in Range(cleanup.entry) :
                      cleanup.at - Activity(id) > sessionTimeout}
             /\ Cardinality(cleanup.evicted) =
                   IF Len(cleanup.entry) - Cardinality(cleanup.expired) > maxSessions
                   THEN Len(cleanup.entry) - Cardinality(cleanup.expired) - maxSessions
                   ELSE 0
             /\ \A r \in cleanup.evicted, k \in CleanupKept :
                   Activity(r) <= Activity(k)

\* a creation brought the store above the cap and the oldest session, which
\* is not the first in insertion order, was evicted
C4_Witness ==
    /\ cleanup.ran
    /\ Len(cleanup.entry) > maxSessions
    /\ cleanup.evicted # {}
    /\ cleanup.entry[1] \notin cleanup.evicted
    /\ Len(sessions) = maxSessions

(***************************************************************************)
(* Claims about the service worker's handlers                              *)
(***************************************************************************)
MessagesOf(c, role) ==
    IF cmd[c].session = 0 THEN {}
    ELSE {i \in DOMAIN heap[cmd[c].session].messages :
            heap[cmd[c].session].messages[i] = [role |-> role, cmd |-> c]}

\* C5: cleanup never removes a session while a command for its tab is in
\* flight (user message recorded, assistant message not yet): the session
\* an in-flight command holds is still the one in the store.
C5_NoEvictionWhileInFlight ==
    \A c \in Cmds : InFlight(c) => cmd[c].session \in Range(sessions)

\* C6: at most one command per tab is awaiting its pipeline at a time.
C6_OneCommandPerTab ==
    \A c, d \in Cmds :
        (c # d /\ InFlight(c) /\ InFlight(d)) => cmd[c].tab # cmd[d].tab

\* C7: a command whose user message was recorded ends with exactly one
\* assistant message in that session's history, whatever its outcome.
C7_OneAssistantMessage ==
    \A c \in Cmds :
        (cmd[c].pc = "done" /\ MessagesOf(c, "user") # {})
            => Cardinality(MessagesOf(c, "assistant")) = 1

\* C8: once a CLARIFICATION_RESPONSE is accepted for a tab whose session is
\* suspended awaiting clarification, the pipeline runs for that tab with the
\* answer as its command.
C8_ClarificationResumes ==
    (clar.success /\ clar.suspended)
        => \E c \in Cmds : /\ cmd[c].pc # "idle"
                           /\ cmd[c].tab = clar.tab
                           /\ cmd[c].command = clar.answer

\* C9: handling a command that checkFastPath matches makes no call to
\* callAI, neither for intent analysis nor for code generation.
C9_FastPathCallsNoModel ==
    \A c \in Cmds :
        (cmd[c].pc # "idle" /\ checkFastPath(cmd[c].command).matched)
            => cmd[c].aiCalls = 0

\* a matched command was executed to its end
C9_Witness ==
    \E c \in Cmds : /\ cmd[c].pc = "done"
                    /\ checkFastPath(cmd[c].command).matched
                    /\ cmd[c].result \in {"success", "executionFailed"}

\* C10: the handler never rejects a command that a fast-path rule matches
\* for a model-related cause such as a missing API key.
C10_FastPathNeedsNoApiKey ==
    \A c \in Cmds :
        (cmd[c].pc = "done" /\ checkFastPath(cmd[c].command).matched)
            => cmd[c].result # "noApiKey"

(***************************************************************************)
(* Claims about the gateway's calls, the model stages, the Safety Filter   *)
(* and the page                                                            *)
(***************************************************************************)

\* the blocking rules and the advisory rules that match a payload
BlockingHits(code) ==
    {n \in DOMAIN BLOCKED_PATTERNS : Test(BLOCKED_PATTERNS[n], code)}
AdvisoryHits(code) ==
    {n \in DOMAIN FLAGGED_PATTERNS : Test(FLAGGED_PATTERNS[n], code)}

\* C11: a generated action whose payload a blocking rule matches gets the
\* verdict safe = FALSE from checkSafety, and its command stands in the error
\* state: it is never at the Executor, nor waiting for a confirmation or a
\* verification, with that payload.
C11_BlockedActionNeverExecuted ==
    \A c \in Cmds :
        BlockingHits(cmd[c].code) # {}
            => /\ ~checkSafety(cmd[c].code, "click").safe
               /\ cmd[c].pc = "done"
               /\ cmd[c].result = "unsafe"

\* a command generated an action that reads chrome.tabs, and ended
C11_Witness ==
    \E c \in Cmds : /\ cmd[c].pc = "done"
                    /\ cmd[c].result = "unsafe"
                    /\ cmd[c].codegens > 0
                    /\ cmd[c].code = <<"chrome", ".", "tabs">>

\* C12: a command never makes more than maxRetries regenerate-and-execute
\* cycles after its first attempt, and a command that ends because its
\* attempts kept failing with requiresRetry has made exactly maxRetries of
\* them: maxRetries + 1 generations in all.
C12_RetriesBoundedByMaxRetries ==
    \A c \in Cmds :
        /\ cmd[c].retries <= cmd[c].settings.maxRetries
        /\ cmd[c].codegens <= cmd[c].retries + 1
        /\ cmd[c].result = "retriesExhausted"
             => /\ cmd[c].pc = "done"
                /\ cmd[c].retries = cmd[c].settings.maxRetries
                /\ cmd[c].codegens = cmd[c].settings.maxRetries + 1

\* a command used up the retries its settings allow, and ended
C12_Witness ==
    \E c \in Cmds : /\ cmd[c].pc = "done"
                    /\ cmd[c].result = "retriesExhausted"
                    /\ cmd[c].settings.maxRetries = SavedMaxRetries
                    /\ cmd[c].retries = SavedMaxRetries
                    /\ cmd[c].codegens = SavedMaxRetries + 1

\* C13: a command for which the Intent Resolver returned clear = FALSE with
\* a non-empty list of clarification options stands in the clarification
\* state, returned to its caller, and generateCode was not called for it.
C13_UnclearIntentSkipsCodegen ==
    \A c \in Cmds :
        (~cmd[c].clear /\ cmd[c].options > 0)
            => /\ cmd[c].pc = "done"
               /\ cmd[c].result = "clarification"
               /\ cmd[c].codegens = 0
               /\ cmd[c].aiCalls = 1

\* the resolver asked for a clarification with two options
C13_Witness ==
    \E c \in Cmds : /\ ~cmd[c].clear
                    /\ cmd[c].options = 2
                    /\ cmd[c].result = "clarification"

\* C14: every callAI call whose request is in flight completes, with a text
\* or with an error, also when the provider never answers.
C14_CallAICompletes == (ai.result = "pending") ~> (ai.result # "pending")

\* C15: a stage that receives a malformed response (no structured block, or
\* a block that does not parse) makes exactly one more model call before it
\* returns its failure or fallback: two callAI calls in all.
C15_MalformedReplyRePrompts ==
    (gate.op \in {"analyzeIntent", "generateCode"} /\ Malformed(gate.reply))
        => gate.out.calls = 2

\* C16: callAI returns a text only for a non-empty key, a success status and
\* a body with the content field; with an empty key it fails and sends
\* nothing; for both providers a success response without the content field
\* makes it fail.
C16_CallAIResultContract ==
    /\ ai.result = "text"
          => ai.key # "" /\ ai.response.ok /\ ai.response.body = "full"
    /\ (ai.result # "none" /\ ai.key = "")
          => ~ai.sent /\ ai.result = "ConfigurationError"
    /\ (ai.provider \in Providers /\ ai.key # "" /\ ai.response.ok
            /\ ai.response.body # "full")
          => ai.result = "ProtocolError"

\* C17: when blocking rules match, the verdict is unsafe with the reason and
\* the matched fragment of the matching rule that comes first in the table,
\* and it has no other field, whatever advisory rules match.
C17_FirstBlockingRuleIsTerminal ==
    (gate.op = "checkSafety" /\ BlockingHits(gate.code) # {})
        => \E n \in BlockingHits(gate.code) :
              /\ \A k \in BlockingHits(gate.code) : n <= k
              /\ gate.out.safe = FALSE
              /\ gate.out.blockedReason = BLOCKED_PATTERNS[n].reason
              /\ gate.out.blocked = FirstMatch(BLOCKED_PATTERNS[n], gate.code)
              /\ DOMAIN gate.out = {"safe", "blocked", "blockedReason"}

\* two blocking rules with different reasons match, the one that comes
\* first in the table matches later in the text, and an advisory rule
\* matches too
C17_Witness ==
    /\ gate.op = "checkSafety"
    /\ AdvisoryHits(gate.code) # {}
    /\ \E n, k \in BlockingHits(gate.code) :
          /\ n < k
          /\ BLOCKED_PATTERNS[n].reason # BLOCKED_PATTERNS[k].reason
          /\ \E i, j \in DOMAIN gate.code :
                /\ j < i
                /\ MatchAt(BLOCKED_PATTERNS[n], gate.code, i)
                /\ MatchAt(BLOCKED_PATTERNS[k], gate.code, j)
                /\ \A m \in 1..(i - 1) :
                      ~MatchAt(BLOCKED_PATTERNS[n], gate.code, m)

\* C18: when no blocking rule matches, flaggedPatterns holds the messages of
\* exactly the matching advisory rules, in table order, with
\* requiresConfirmation true, when there is one; the verdict is {safe: true}
\* and nothing else when there is none.
C18_AdvisoryMatchesAccumulate ==
    (gate.op = "checkSafety" /\ BlockingHits(gate.code) = {})
        => IF AdvisoryHits(gate.code) = {}
           THEN gate.out = [safe |-> TRUE]
           ELSE /\ gate.out.safe
                /\ gate.out.requiresConfirmation
                /\ DOMAIN gate.out = {"safe", "requiresConfirmation",
                                      "confirmationMessage", "flaggedPatterns"}
                /\ Len(gate.out.flaggedPatterns)
                     = Cardinality(AdvisoryHits(gate.code))
                /\ \E f \in [DOMAIN gate.out.flaggedPatterns
                                 -> AdvisoryHits(gate.code)] :
                      /\ \A i, j \in DOMAIN f : i < j => f[i] < f[j]
                      /\ \A i \in DOMAIN f :
                            gate.out.flaggedPatterns[i]
                              = FLAGGED_PATTERNS[f[i]].message

\* two advisory rules match and no blocking rule; the rule that comes first
\* in the table matches later in the text
C18_Witness ==
    /\ gate.op = "checkSafety"
    /\ BlockingHits(gate.code) = {}
    /\ AdvisoryHits(gate.code) = {1, 2}
    /\ \E i, j \in DOMAIN gate.code :
          /\ j < i
          /\ MatchAt(FLAGGED_PATTERNS[1], gate.code, i)
          /\ MatchAt(FLAGGED_PATTERNS[2], gate.code, j)

\* the element identifiers a payload refers to
ReferencedIds(code) == Range(code) \cap ElementIds

\* C19: validateSelectors returns valid exactly when every element
\* identifier the payload refers to is among the snapshot's identifiers, and
\* invalidSelectors holds exactly the identifiers referred to that are not.
C19_ValidIffAllIdsKnown ==
    gate.op = "validateSelectors"
        => /\ gate.out.valid <=> ReferencedIds(gate.code) \subseteq gate.ids
           /\ Range(gate.out.invalidSelectors)
                = ReferencedIds(gate.code) \ gate.ids

\* C20: the identifiers of a snapshot are unique, and an identifier that an
\* earlier snapshot minted resolves to no element once a later snapshot has
\* been captured.
C20_EarlierIdentifiersDoNotResolve ==
    /\ \A p, q \in page.latest : p[1] = q[1] => p = q
    /\ \A p \in page.earlier : Resolve(page.elementMap, p[1]) = 0


(***************************************************************************)
(* Claims about the results of the model stages                            *)
(***************************************************************************)
\* C21: every result of analyzeIntent has exactly one side populated: when
\* clear is true, parsedIntent and neither the clarification question nor the
\* options; when clear is false, the question and the options and not
\* parsedIntent.
C21_IntentDecisionInvariant ==
    gate.op = "analyzeIntent"
        => IF gate.out.clear
           THEN /\ gate.out.parsedIntent # NoIntent
                /\ gate.out.clarificationQuestion = "null"
                /\ gate.out.clarificationOptions = -1
           ELSE /\ gate.out.clarificationQuestion # "null"
                /\ gate.out.clarificationOptions # -1
                /\ gate.out.parsedIntent = NoIntent

\* C22: when callAI throws, or its text holds no {...} block or a block that
\* does not parse, analyzeIntent returns clear = TRUE with parsedIntent
\* {action: click, target: the command} and no clarification field.
C22_IntentFallsBackToClick ==
    (gate.op = "analyzeIntent" /\ gate.reply # "json")
        => /\ gate.out.clear
           /\ gate.out.parsedIntent.action = "click"
           /\ gate.out.parsedIntent.target = gate.command
           /\ gate.out.clarificationQuestion = "null"
           /\ gate.out.clarificationOptions = -1

\* analyzeIntent fell back on a reply whose block was not JSON
C22_Witness ==
    /\ gate.op = "analyzeIntent"
    /\ gate.reply = "badJson"
    /\ gate.command = <<"fill", "_", "it">>
    /\ gate.out.parsedIntent = [action |-> "click", target |-> <<"fill", "_", "it">>]

\* the actions of the model's answer that generateCode has to return
ExpectedActions ==
    IF gate.reply = "json" /\ gate.generated.success
    THEN gate.generated.actions
    ELSE <<>>

C24_VerifyNoneIsIdempotent ==
    verifier.verification.type \in {"absent", "none"}
        => /\ verifier.out.success
           /\ verifier.timers = 0
           /\ verifier.queries = 0

\* verifyAction was called for a verification of type none as often as the
\* bound allows, on a closed tab
C24_Witness ==
    /\ verifier.verification.type = "none"
    /\ verifier.calls = MaxVerifyCalls
    /\ ~verifier.seen.open
    /\ verifier.out.actualResult = "Skipped"

\* the url the call found contains the expected result, whatever the case
\* of the letters
FoundInUrl ==
    \E i, j \in 0..Len(verifier.seen.url) :
        /\ j - i = Len(verifier.verification.expectedResult)
        /\ \A k \in 1..(j - i) :
              Lower(verifier.seen.url[i + k])
                = Lower(verifier.verification.expectedResult[k])

\* C25: verifyAction returns success = FALSE exactly for a navigation with
\* a non-empty expected result on a tab that could be read, whose url does
\* not contain the expected result in any case of the letters and which is
\* not loading; for every other verification, and when reading the tab
\* fails, it returns success = TRUE.
C25_FailsOnlyOnNavigationMismatch ==
    verifier.calls > 0
        => (~verifier.out.success
              <=> /\ verifier.verification.type = "navigation"
                  /\ verifier.verification.expectedResult # <<>>
                  /\ verifier.seen.open
                  /\ verifier.seen.status # "loading"
                  /\ ~FoundInUrl)

\* a navigation to EXAMPLE.com was verified on https://Example.com
C25_Witness ==
    /\ verifier.calls > 0
    /\ verifier.verification = [type |-> "navigation",
                                expectedResult |-> <<"EXAMPLE", ".com">>]
    /\ verifier.seen = [url |-> <<"https://", "Example", ".com">>,
                        status |-> "complete", open |-> TRUE]
    /\ verifier.out.success


(***************************************************************************)
(* Claims about the Pattern Matcher and the fast path                      *)
(***************************************************************************)
\* a command without the white space before and after it
Core(command) ==
    LET inked == {i \in DOMAIN command : command[i] # "_"}
    IN IF inked = {} THEN <<>>
       ELSE SubSeq(command,
                   CHOOSE i \in inked : \A k \in inked : i <= k,
                   CHOOSE i \in inked : \A k \in inked : i >= k)

\* C26: for the command click "Sign In" checkFastPath returns clickByText
\* with text Sign In, and when no candidate's text, aria-label or value
\* equals it in any case of the letters, the outcome is success = FALSE
\* with the error Could not find element with text "Sign In".
C26_ClickByTextNotFoundError ==
    (gate.op = "executeClickByText" /\ Core(gate.command) = SignIn)
        => /\ gate.out.match.action = "clickByText"
           /\ gate.out.match.params.text = <<"Sign", "_", "In">>
           /\ (\A n \in DOMAIN gate.elements :
                  /\ LowerAll(gate.elements[n].text) # <<"sign", "_", "in">>
                  /\ LowerAll(gate.elements[n].ariaLabel) # <<"sign", "_", "in">>
                  /\ LowerAll(gate.elements[n].value) # <<"sign", "_", "in">>)
                => /\ ~gate.out.result.success
                   /\ gate.out.result.says = "Could not find element with text"
                   /\ gate.out.result.text = <<"Sign", "_", "In">>

\* C27: checkFastPath returns the result of the first rule in table order
\* that matches the command without the white space around it, and
\* {matched: false} when none matches; scroll down and scroll up without a
\* magnitude give the action scroll with the direction in lower case and
\* the amount 400; a repeated call gives the result of the call before it.
C27_FastPathIsPureFirstMatch ==
    gate.op = "checkFastPath"
        => LET t == Core(gate.command)
               l == [i \in DOMAIN t |-> Lower(t[i])]
               hits == {n \in 1..NumRules : RuleMatches(n, t, l)}
           IN /\ IF hits = {} THEN gate.out = [matched |-> FALSE]
                 ELSE \E n \in hits :
                         /\ \A k \in hits : n <= k
                         /\ gate.out = RuleResult(n, t, l)
              /\ l \in {<<"scroll", "_", "down">>, <<"scroll", "_", "up">>}
                   => /\ gate.out.matched
                      /\ gate.out.action = "scroll"
                      /\ gate.out.params = [direction |-> l[3], amount |-> "400"]
              /\ gate.calls > 1 => gate.out = gate.prev

\* Scroll DOWN, with white space after it, was matched twice
C27_Witness ==
    /\ gate.op = "checkFastPath"
    /\ gate.command = <<"Scroll", "_", "DOWN", "_">>
    /\ gate.calls = 2
    /\ gate.out = [matched |-> TRUE, action |-> "scroll",
                   params |-> [direction |-> "down", amount |-> "400"]]


(***************************************************************************)
(* Claims about the histories of a session                                 *)
(***************************************************************************)
\* C28: a session's message history never holds more than 100 messages and
\* its action history never more than 50 entries; the message that would be
\* the 101st leaves 50 messages, the entry that would be the 51st leaves 30.
C28_HistoriesStayBounded ==
    /\ [](\A id \in DOMAIN heap :
             /\ Len(heap[id].messages) <= 100
             /\ Len(heap[id].actionHistory) <= 50)
    /\ [][\A id \in DOMAIN heap :
             /\ (Len(heap[id].messages) = 100
                   /\ heap'[id].messages # heap[id].messages)
                  => Len(heap'[id].messages) = 50
             /\ (Len(heap[id].actionHistory) = 50
                   /\ heap'[id].actionHistory # heap[id].actionHistory)
                  => Len(heap'[id].actionHistory) = 30]_vars

\* the 101st message and the 51st action were added: the histories hold
\* the newest 50 and the newest 30
C28_Witness ==
    /\ Len(heap[1].messages) = 50
    /\ Last(heap[1].messages).cmd = 101
    /\ Head(heap[1].messages).cmd = 52
    /\ Len(heap[1].actionHistory) = 30
    /\ Last(heap[1].actionHistory).cmd = 51


(***************************************************************************)
(* Claims about the settings of a pipeline run                             *)
(***************************************************************************)
\* C29: the settings a pipeline run was started with are those the worker
\* held when the run started, and no step taken while the run is in flight,
\* a SETTINGS_UPDATED message included, changes any field of them.
C29_RunSettingsAreASnapshot ==
    [][\A c \in Cmds :
          /\ (InFlight(c) /\ cmd'[c].pc \in PipelineStages)
                => cmd'[c].settings = cmd[c].settings
          /\ (~InFlight(c) /\ cmd'[c].pc \in PipelineStages)
                => cmd'[c].settings = settings']_vars

\* new settings were loaded while the first command was in flight, and the
\* second command was started with them
C29_Witness ==
    /\ cmd[1].pc = "done"
    /\ cmd[1].settings.apiKey = "sk-key"
    /\ cmd[1].result = "success"
    /\ cmd[1].aiCalls > 0
    /\ cmd[2].pc \in PipelineStages
    /\ cmd[2].settings.apiKey = "sk-other"


(***************************************************************************)
(* Claims about the limiter's waiting time                                 *)
(***************************************************************************)
\* C30: getWaitTime() returns 0 when fewer than 10 timestamps are recorded,
\* otherwise the time from the call until the oldest recorded timestamp is
\* 60000 ms old; the value it returns is never negative.
C30_WaitTimeIsARemainingDelay ==
    rl.wait.asked
        => /\ Len(rl.wait.found) < 10 => rl.wait.time = 0
           /\ Len(rl.wait.found) >= 10
                => \E oldest \in Range(rl.wait.found) :
                      /\ \A t \in Range(rl.wait.found) : oldest <= t
                      /\ rl.wait.time = oldest + 60000 - rl.wait.at
           /\ rl.wait.time >= 0

\* C31: a canProceed() call made at the instant of a getWaitTime() call, on
\* the timestamps that call found, is rejected if and only if getWaitTime()
\* returned a strictly positive time.
C31_PositiveWaitIffRejected ==
    [][(/\ rl.wait.asked
        /\ rl.wait.at = now
        /\ rl.wait.found = requests
        /\ rl'.calls = rl.calls + 1)
          => (rl'.lastRet <=> ~(rl.wait.time > 0))]_vars

\* ten timestamps were recorded, getWaitTime() returned a positive time, and
\* the canProceed() call made next at the same instant was rejected
C31_Witness ==
    /\ rl.wait.asked
    /\ rl.wait.time > 0
    /\ Len(rl.wait.found) = maxRequests
    /\ rl.wait.found = requests
    /\ rl.lastAt = rl.wait.at
    /\ rl.calls = maxRequests + 1
    /\ ~rl.lastRet

\* the admitted calls whose timestamps lie in the window ending at t
AdmittedInWindow(t) ==
    {i \in DOMAIN rl.admitted :
        rl.admitted[i] <= t /\ t - rl.admitted[i] < windowMs}

\* C32: the limiter never holds more than maxRequests timestamps; a
\* rejected canProceed() call adds no timestamp; and no window of windowMs,
\* whenever it ends, holds more than maxRequests admitted calls.
C32_AtMostCapPerWindow ==
    /\ [](/\ Len(requests) <= maxRequests
          /\ \A t \in Range(rl.admitted) \cup {now} :
                Cardinality(AdmittedInWindow(t)) <= maxRequests)
    /\ [][(rl'.calls = rl.calls + 1 /\ ~rl'.lastRet)
             => /\ Len(requests') <= Len(requests)
                /\ Range(requests') \subseteq Range(requests)
                /\ rl'.admitted = rl.admitted]_vars

\* a full window rejected a call, the window elapsed, and more calls were
\* admitted: more than maxRequests calls admitted in all, never more than
\* maxRequests of them in one window
C32_Witness ==
    /\ rl.rejected
    /\ Len(rl.admitted) > maxRequests
    /\ Len(requests) < Len(rl.admitted)
    /\ rl.calls = MaxCalls


(***************************************************************************)
(* Claims about the sessions of the tabs                                   *)
(***************************************************************************)
\* C33: the cleanup run by a creation does not remove the session just
\* created, neither as expired nor to meet the cap, also when other sessions
\* have the same lastActivityAt: the session getOrCreateSession returns is
\* in the store when the call returns.
C33_CreatedSessionSurvivesCleanup ==
    cleanup.ran
        => /\ heap[Last(cleanup.entry)].createdAt = cleanup.at
           /\ Last(cleanup.entry) \notin CleanupRemoved
           /\ Cardinality(CleanupKept) <= maxSessions

\* a creation brought the store above the cap while every stored session
\* had the lastActivityAt of the new one: the first session in insertion
\* order was evicted, the new one is stored
C33_Witness ==
    /\ cleanup.ran
    /\ Len(cleanup.entry) > maxSessions
    /\ \A id \in Range(cleanup.entry) : heap[id].lastActivityAt = cleanup.at
    /\ cleanup.evicted = {cleanup.entry[1]}
    /\ Last(cleanup.entry) \in Range(sessions)
    /\ heap[Last(cleanup.entry)].createdAt = cleanup.at

\* C34: a lookup of a tab that has a session (getSession, or
\* getOrCreateSession) removes no session and changes nothing but the
\* lastActivityAt of that session, which becomes the time of the call; this
\* also when the session, or another one, has been idle for more than
\* sessionTimeout.
C34_LookupsEvictNothing ==
    [][\A t \in LookupTabs :
          (Lookup(sessions, heap, t) # 0
             /\ (GetSession(t) \/ GetOrCreateSession(t)))
            => LET found == Lookup(sessions, heap, t)
               IN /\ sessions' = sessions
                  /\ cleanup' = cleanup
                  /\ DOMAIN heap' = DOMAIN heap
                  /\ \A id \in DOMAIN heap : id # found => heap'[id] = heap[id]
                  /\ heap'[found] =
                        [heap[found] EXCEPT !.lastActivityAt = now]]_vars

\* the session of the old tab was idle for more than sessionTimeout, a
\* lookup refreshed it, and the creation of a session for another tab then
\* expired others but not this one
C34_Witness ==
    /\ cleanup.ran
    /\ cleanup.at > sessionTimeout
    /\ cleanup.expired # {}
    /\ heap[OldTab].createdAt = 0
    /\ heap[OldTab].lastActivityAt = cleanup.at
    /\ OldTab \in Range(sessions)

\* the stored sessions of a tab
StoredFor(ss, hp, t) == {id \in Range(ss) : hp[id].tabId = t}
\* what the methods of a wrapper write
Written(sess) ==
    <<sess.messages, sess.actionHistory, sess.pendingClarification>>

\* C35: a tab has at most one stored session; getOrCreateSession for a tab
\* that has one returns that session, with its id and its histories, and
\* creates none; every getOrCreateSession leaves the tab with a session of
\* its own; and a step that changes what the wrapper methods write in one
\* session changes no other session.
C35_SessionsIsolatedPerTab ==
    /\ [](\A t \in LookupTabs : Cardinality(StoredFor(sessions, heap, t)) <= 1)
    /\ [][\A t \in LookupTabs :
            GetOrCreateSession(t)
              => /\ Cardinality(StoredFor(sessions', heap', t)) = 1
                 /\ \A id \in StoredFor(sessions, heap, t) :
                       /\ StoredFor(sessions', heap', t) = {id}
                       /\ Len(heap') = Len(heap)
                       /\ heap'[id].id = heap[id].id
                       /\ Written(heap'[id]) = Written(heap[id])
                       /\ heap'[id].lastActivityAt = now]_vars
    /\ [][\A id \in Wrapped :
            Written(heap'[id]) # Written(heap[id])
              => \A other \in DOMAIN heap \ {id} : heap'[other] = heap[other]]_vars

\* the session of a further tab was written and later looked up again,
\* histories kept, while the session of the old tab, evicted and created
\* anew in between, is another object with histories of its own
C35_Witness ==
    \E id \in StoredFor(sessions, heap, PreFilled + 1),
       new \in StoredFor(sessions, heap, OldTab) :
        /\ heap[id].messages # <<>>
        /\ heap[id].pendingClarification = "null"
        /\ heap[id].lastActivityAt > heap[id].createdAt
        /\ new # OldTab
        /\ heap[new].messages # <<>>
        /\ heap[new].actionHistory = <<>>
        /\ heap[OldTab].pendingClarification # "null"

\* the smaller of two numbers
Min(a, b) == IF a < b THEN a ELSE b

\* C36: an addMessage call leaves a suffix of the history with the message
\* appended, which ends with that message; and getConversationContext(n)
\* returns the last min(n, length) messages of the history, in order.
C36_HistoryIsASuffixInOrder ==
    /\ [][heap'[1].messages # heap[1].messages
            => LET added == [role |-> IF NextEntry(heap[1].messages) % 2 = 1
                                      THEN "user" ELSE "assistant",
                             cmd |-> NextEntry(heap[1].messages)]
                   pushed == Append(heap[1].messages, added)
               IN /\ Last(heap'[1].messages) = added
                  /\ \E k \in 0..Len(pushed) :
                        heap'[1].messages = SubSeq(pushed, k + 1, Len(pushed))]_vars
    /\ [](gate.op = "getConversationContext"
            => LET history == gate.prev.messages
                   length == Len(history)
                   kept == Min(gate.calls, length)
               IN gate.out.context =
                     SubSeq(history, length - kept + 1, length))


(***************************************************************************)
(* Claims about repeated calls of the Safety Filter                        *)
(***************************************************************************)
\* C37: the verdict of a checkSafety call is the verdict of a call on the
\* same payload with patterns that were never used, whatever payloads were
\* checked before and however often.
C37_VerdictIndependentOfEarlierCalls ==
    gate.op = "checkSafety"
        => /\ gate.out = checkSafetyOn(gate.code, FreshPatterns).verdict
           /\ gate.out = checkSafety(gate.code, "click")

\* the last of the calls made in a row: the payload was flagged, and the
\* pattern that matched it is left with a lastIndex that is not 0
C37_Witness ==
    /\ gate.op = "checkSafety"
    /\ gate.calls = MaxSafetyCalls
    /\ gate.code = <<"delete">>
    /\ gate.out.safe
    /\ DOMAIN gate.out # {"safe"}
    /\ gate.prev.flagged[2] = 1

====
